---- MODULE Spec2Model ----
(***************************************************************************)
(* State-machine model of the Qcodes instrument drivers:                   *)
(*   - the Alazar acquisition controllers (HD_Samples_Controller,          *)
(*     VNA_Acquisition_Controller, the two                                 *)
(*     Reflectometry_Acquisition_Controllers) and the acquire loop that    *)
(*     drives their callbacks,                                             *)
(*   - the LeCroy oscilloscope trace parameters (ScopeArray, RFTrace),     *)
(*   - the InstrumentServer query loop exercised by test_instrument_server.*)
(* Sample counts and times are scaled down: one tick of time holds         *)
(* sample_rate samples, and the Alazar's samples_divisor is SamplesDivisor.*)
(***************************************************************************)
EXTENDS Integers, Sequences, FiniteSets, TLC

\* ---------------------------------------------------------------- bounds
MaxBuffers == 2       \* largest buffers_per_acquisition
MaxCalls == 3         \* calls the user makes in one behaviour

\* ------------------------------------------------------- scaled constants
SamplesDivisor == 2   \* the Alazar's samples_divisor
IntTimeLimit == 1     \* the 0.1 s limit of int_time / int_delay, in ticks

\* Python floats, scaled: a float is written as a whole number of
\* 1 / FloatUnit, and keeps FloatDigits binary digits (53 in a double).
FloatUnit == 4
FloatDigits == 3

\* Alazar sample rates, in samples per tick; the constructor's numtaps is
\* chosen so that (numtaps - 1) / sample_rate is a whole number of ticks.
Rates == {1, 2}

\* The values the user chooses for x_npts, y_npts, samples_per_record and
\* records_per_buffer, and the offsets b of the sample data i + b a buffer
\* delivers.
NptsChoices == 1..2
Offsets == 0..1

\* demod_freq limits 1e6 and 500e6, in MHz
demod_freq_min == 1
demod_freq_max == 500
DemodInputs == {0, 1, 250, 500, 501}

\* Python's None, and an attribute that was never assigned: two codes outside
\* every numeric range of the model.
None == -1000
Unset == -2000

\* ------------------------------------------------------- numpy helpers
Zeros(n) == [i \in 1..n |-> 0]

\* buffer += data on arrays of one shape
AddArrays(a, b) == [i \in 1..Len(a) |-> a[i] + b[i]]

\* Python slice a[i0:i1] of a flat array (0-based, clipped to the array)
Slice(a, i0, i1) ==
    LET hi == IF i1 < Len(a) THEN i1 ELSE Len(a)
    IN  IF i0 >= hi THEN << >> ELSE [k \in 1..(hi - i0) |-> a[i0 + k]]

RECURSIVE SumSeq(_)
SumSeq(s) == IF s = << >> THEN 0 ELSE Head(s) + SumSeq(Tail(s))

\* The buffers the board can deliver for a buffer of n samples.
DataBuffers(n) ==
    { [i \in 1..n |-> i + b] : b \in Offsets }

\* --------------------------------------------------------------- state
VARIABLES
    ctor,            \* constructor arguments of the controller (never change)
    filter_settings, \* HD_Samples_Controller.filter_settings['filter']
    ctl,             \* attributes of the acquisition controller
    params,          \* values of its AcqVariablesParam parameters
    acquisition,     \* the acquisition parameter: acquisition_kwargs, shapes
    alazar,          \* the Alazar instrument's parameters and board
    acq,             \* the running alazar.acquire call
    delivered,       \* data buffers handed to handle_buffer since the last
                     \* successful pre_start_capture
    ret,             \* outcome of the latest call that finished
    calls_left       \* calls the user may still make

acqVars == << ctor, filter_settings, ctl, params, acquisition, alazar, acq,
              delivered, ret, calls_left >>

\* The LeCroy oscilloscope (LCR) with its channels' curvedata parameters
\* (ScopeArray) and the Reflectometry channel's curvedata (RFTrace).
VARIABLES
    trace_ready,     \* LCR.trace_ready
    rf,              \* Reflectometry: frequency, start, end, average, and
                     \* whether RFTrace._I_ch / _Q_ch were assigned
    wire,            \* what the latest call sent to the oscilloscope
    scope,           \* the running ScopeArray.get
    scope_ret,       \* outcome of the latest call on the oscilloscope
    prepared,        \* some prepare_curvedata call has returned
    scope_calls_left \* calls the user may still make on the oscilloscope

scopeVars == << trace_ready, rf, wire, scope, scope_ret, prepared,
                scope_calls_left >>

\* The InstrumentServer of test_instrument_server with its three queues.
VARIABLES
    query_queue,     \* queries put by schedule, not yet taken by the server
    response_queue,  \* responses the server has put
    error_queue,     \* error reports the server has put
    instruments,     \* uuid -> whether the server holds it, and the Holder
    running,         \* the server's event loop is running
    handled,         \* the queries the server has taken, in order
    to_send          \* queries schedule may still put

serverVars == << query_queue, response_queue, error_queue, instruments,
                 running, handled, to_send >>

\* The SR570 current preamplifier with a CurrentParameter on top of a
\* measured voltage parameter.
VARIABLES
    amp,             \* SR570 parameters: invert, sensitivity
    measured,        \* value of the measured voltage parameter
    latest,          \* what CurrentParameter._save_val saved last
    amp_ret          \* outcome of the latest CurrentParameter.get

ampVars == << amp, measured, latest, amp_ret >>

\* The dataset database of test_dataset_loading.
VARIABLES
    experiments,     \* number of experiments created
    runs,            \* run_id -> [exp_id, completed] of each dataset
    loaded,          \* what the latest load_by_id returned
    db_calls,        \* the calls the test has made, in order
    db_left          \* calls the test may still make

dbVars == << experiments, runs, loaded, db_calls, db_left >>

\* -------------------------------------- AlazarTech_ATS9462 (its parameters)
VARIABLES
    ats_model,       \* the model the board reports in get_idn()
    ats_params,      \* the parameters added so far, in the order of the calls
    ats_pc,          \* "init" in __init__, then "constructed" or "failed"
    ats_sets         \* number of parameter values set since construction

atsVars == << ats_model, ats_params, ats_pc, ats_sets >>

vars == << acqVars, scopeVars, serverVars, ampVars, dbVars, atsVars >>

otherThanAcq == << scopeVars, serverVars, ampVars, dbVars, atsVars >>
otherThanScope == << acqVars, serverVars, ampVars, dbVars, atsVars >>
otherThanServer == << acqVars, scopeVars, ampVars, dbVars, atsVars >>
otherThanAmp == << acqVars, scopeVars, serverVars, dbVars, atsVars >>
otherThanDb == << acqVars, scopeVars, serverVars, ampVars, atsVars >>
otherThanAts == << acqVars, scopeVars, serverVars, ampVars, dbVars >>

Kinds == {"HD", "VNA", "RF", "RF2"}
IsRF == ctor.kind \in {"RF", "RF2"}

\* What a call leaves behind: the exception it raised ("" when it returned)
\* and the value it returned.
NoValue == [conv |-> "none", A |-> << >>, B |-> << >>, den |-> 1]
Outcome(op, exc, value) == [op |-> op, exc |-> exc, value |-> value]

\* ------------------------------------------- HD_Samples_Controller values
\* get_demod_freqs: the demod_freq_i values that are not None (nor 0)
RECURSIVE FilterNone(_)
FilterNone(s) ==
    IF s = << >> THEN << >>
    ELSE IF Head(s) = None \/ Head(s) = 0 THEN FilterNone(Tail(s))
         ELSE << Head(s) >> \o FilterNone(Tail(s))

get_demod_freqs(p) == FilterNone(p.demod_freq)

RECURSIVE MaxOf(_)
MaxOf(s) == IF Len(s) = 1 THEN s[1]
            ELSE LET m == MaxOf(Tail(s)) IN IF Head(s) > m THEN Head(s) ELSE m

get_max_demod_freq(p) ==
    LET freqs == get_demod_freqs(p)
    IN  IF Len(freqs) > 0 THEN MaxOf(freqs) ELSE None

\* ------------------------------------------------------ pre_start_capture
\* A pre_start_capture that does not compare samples_per_record at all.
check_samples_per_record_skipped(c, a) == ""

\* The check of the cached samples_per_record against the instrument;
\* "" when it passes.  A controller other than HD never assigned
\* samples_per_record before its first update_acquisition_kwargs.
check_samples_per_record(c, a) ==
    IF c.samples_per_record = Unset THEN "AttributeError"
    ELSE IF c.samples_per_record # a.samples_per_record THEN "Exception"
    ELSE ""

\* Further checks that do not ask for a demodulation frequency.
check_hd_any_freqs(c, p, a) ==
    IF c.sample_rate # a.sample_rate THEN "Exception" ELSE ""

\* The further checks of HD_Samples_Controller.pre_start_capture.
check_hd(c, p, a) ==
    IF c.sample_rate # a.sample_rate THEN "Exception"
    ELSE IF Len(get_demod_freqs(p)) = 0 THEN "Exception"
    ELSE ""

\* A pre_start_capture that keeps an accumulator of the right length
\* instead of allocating a new one.
allocate_reusing(c, p, a) ==
    LET n == c.samples_per_record * a.records_per_buffer
                 * ctor.number_of_channels
    IN  [c EXCEPT !.records_per_buffer = a.records_per_buffer,
                  !.buffers_per_acquisition = a.buffers_per_acquisition,
                  !.board_info = a.bits_per_sample,
                  !.buffer = IF Len(c.buffer) = n THEN c.buffer ELSE Zeros(n),
                  !.allocated = TRUE]

\* The assignments of a pre_start_capture whose checks passed.
allocate(c, p, a) ==
    LET c1 == [c EXCEPT !.records_per_buffer = a.records_per_buffer,
                        !.buffers_per_acquisition = a.buffers_per_acquisition,
                        !.board_info = a.bits_per_sample,
                        !.buffer = Zeros(c.samples_per_record
                                         * a.records_per_buffer
                                         * ctor.number_of_channels),
                        !.allocated = TRUE]
    IN  IF ctor.kind = "HD"
        THEN [c1 EXCEPT !.demod_mat = [freqs |-> get_demod_freqs(p),
                                       samples |-> c.samples_per_record,
                                       sample_rate |-> c.sample_rate]]
        ELSE c1

\* pre_start_capture: [exc, ctl] = the exception raised and the controller
\* afterwards.
pre_start_capture(c, p, a) ==
    LET e1 == check_samples_per_record(c, a)
        e2 == IF e1 = "" /\ ctor.kind = "HD" THEN check_hd(c, p, a) ELSE e1
    IN  IF e2 # "" THEN [exc |-> e2, ctl |-> c]
        ELSE [exc |-> "", ctl |-> allocate(c, p, a)]

\* ---------------------------------------------------------- handle_buffer
\* A handle_buffer that keeps the latest data only: self.buffer = data
handle_buffer_overwrite(c, data) == [c EXCEPT !.buffer = data]

\* self.buffer += data
handle_buffer(c, data) == [c EXCEPT !.buffer = AddArrays(c.buffer, data)]

\* ----------------------------------------------------------- post_acquire
\* numpy broadcasting of a 1-d array s into a 1-d array of n elements:
\* allowed when s has n elements or one element.
Broadcasts(s, n) == Len(s) = n \/ Len(s) = 1
Broadcast(s, n) == [j \in 1..n |-> IF Len(s) = n THEN s[j] ELSE s[1]]

\* Every second element of a slice: a[i0:i1:2]
Strided(a, i0, i1) ==
    LET sl == Slice(a, i0, i1)
    IN  [k \in 1..((Len(sl) + 1) \div 2) |-> sl[2 * k - 1]]

\* rec = zeros(n); for i in range(len(rows)): rec += rows[i]
RECURSIVE SumRows(_, _)
SumRows(rows, n) ==
    IF rows = << >> THEN Zeros(n)
    ELSE AddArrays(Broadcast(Head(rows), n), SumRows(Tail(rows), n))

RECURSIVE Flatten(_)
Flatten(rows) == IF rows = << >> THEN << >> ELSE Head(rows) \o Flatten(Tail(rows))

\* The records post_acquire cuts out of the accumulator, starting at offset.
Records(c, offset) ==
    [i \in 1..c.records_per_buffer |->
        Slice(c.buffer, (i - 1) * c.samples_per_record + offset,
                        (i - 1) * c.samples_per_record + offset
                            + c.samples_per_record)]

\* A post_acquire that averages over the records of one buffer only.
post_acquire_vna_per_buffer(c) ==
    LET recsA == Records(c, 0)
        recsB == Records(c, Len(c.buffer) \div 2)
        n == c.samples_per_record
    IN  IF ~c.allocated THEN [exc |-> "AttributeError", value |-> NoValue]
        ELSE IF c.board_info = 12 THEN [exc |-> "TypeError", value |-> NoValue]
        ELSE [exc |-> "",
              value |-> [conv |-> IF c.board_info = 16 THEN "volt_u16"
                                  ELSE "centered",
                         A |-> SumRows(recsA, n),
                         B |-> SumRows(recsB, n),
                         den |-> c.records_per_buffer]]

\* VNA_Acquisition_Controller.post_acquire
post_acquire_vna(c) ==
    LET recsA == Records(c, 0)
        recsB == Records(c, Len(c.buffer) \div 2)
        n == c.samples_per_record
        records_per_acquisition ==
            c.buffers_per_acquisition * c.records_per_buffer
    IN  IF ~c.allocated THEN [exc |-> "AttributeError", value |-> NoValue]
        ELSE IF \E i \in 1..c.records_per_buffer :
                    ~Broadcasts(recsA[i], n) \/ ~Broadcasts(recsB[i], n)
        THEN [exc |-> "ValueError", value |-> NoValue]
        \* sample_to_volt_u12 right-shifts a float array
        ELSE IF c.board_info = 12 THEN [exc |-> "TypeError", value |-> NoValue]
        ELSE [exc |-> "",
              value |-> [conv |-> IF c.board_info = 16 THEN "volt_u16"
                                  ELSE "centered",
                         A |-> SumRows(recsA, n),
                         B |-> SumRows(recsB, n),
                         den |-> records_per_acquisition]]

\* Reflectometry_Acquisition_Controller.post_acquire
\* (fast_reflectometry_controller.py): one row of record per record of the
\* buffer, each converted to volts, none divided.
post_acquire_rf(c) ==
    LET recsA == Records(c, 0)
        recsB == Records(c, Len(c.buffer) \div 2)
    IN  IF ~c.allocated THEN [exc |-> "AttributeError", value |-> NoValue]
        ELSE IF c.x_npts = None \/ c.y_npts = None
        THEN [exc |-> "TypeError", value |-> NoValue]
        ELSE IF c.records_per_buffer > c.y_npts
        THEN [exc |-> "IndexError", value |-> NoValue]
        ELSE IF \E i \in 1..c.records_per_buffer :
                    ~Broadcasts(recsA[i], c.x_npts)
                    \/ ~Broadcasts(recsB[i], c.x_npts)
        THEN [exc |-> "ValueError", value |-> NoValue]
        ELSE [exc |-> "",
              value |-> [conv |-> "volt_u16",
                         A |-> Flatten([i \in 1..c.records_per_buffer |->
                                          Broadcast(recsA[i], c.x_npts)]),
                         B |-> Flatten([i \in 1..c.records_per_buffer |->
                                          Broadcast(recsB[i], c.x_npts)]),
                         den |-> 1]]

\* Reflectometry_Acquisition_Controller.post_acquire
\* (fast_reflectometry_controller_2.py): the single record reshaped to
\* (y_npts, x_npts).
post_acquire_rf2(c) ==
    LET recA == Slice(c.buffer, 0, c.samples_per_record)
        b0 == Len(c.buffer) \div 2
        recB == Slice(c.buffer, b0, b0 + c.samples_per_record)
    IN  IF ~c.allocated THEN [exc |-> "AttributeError", value |-> NoValue]
        ELSE IF c.x_npts = None \/ c.y_npts = None
        THEN [exc |-> "TypeError", value |-> NoValue]
        ELSE IF Len(recA) # c.y_npts * c.x_npts \/ Len(recB) # c.y_npts * c.x_npts
        THEN [exc |-> "ValueError", value |-> NoValue]
        ELSE [exc |-> "",
              value |-> [conv |-> "volt_u16", A |-> recA, B |-> recB,
                         den |-> 1]]

\* HD_Samples_Controller._fit: the exception it raises, "" when it returns.
\* sample_to_volt_u12 is called with two of its three arguments; the
\* least-squares filter is not implemented.
fit(c, fs) ==
    IF c.board_info = 12 THEN "TypeError"
    ELSE IF fs = 1 THEN "NotImplementedError"
    ELSE ""

\* HD_Samples_Controller.post_acquire
post_acquire_hd(c, fs) ==
    LET n == c.samples_per_record
        recs == [i \in 1..c.records_per_buffer |->
                   Strided(c.buffer, (i - 1) * n * ctor.number_of_channels,
                                     (i - 1) * n * ctor.number_of_channels
                                         + n * ctor.number_of_channels)]
    IN  IF ~c.allocated THEN [exc |-> "AttributeError", value |-> NoValue]
        ELSE IF \E i \in 1..c.records_per_buffer : ~Broadcasts(recs[i], n)
        THEN [exc |-> "ValueError", value |-> NoValue]
        ELSE IF fit(c, fs) # "" THEN [exc |-> fit(c, fs), value |-> NoValue]
        ELSE IF ctor.chan_b
        THEN [exc |-> "NotImplementedError", value |-> NoValue]
        ELSE [exc |-> "",
              value |-> [conv |-> "demodulated",
                         A |-> SumRows(recs, n), B |-> << >>,
                         den |-> c.buffers_per_acquisition
                                   * c.records_per_buffer]]

post_acquire(c, fs) ==
    CASE ctor.kind = "HD" -> post_acquire_hd(c, fs)
      [] ctor.kind = "VNA" -> post_acquire_vna(c)
      [] ctor.kind = "RF" -> post_acquire_rf(c)
      [] ctor.kind = "RF2" -> post_acquire_rf2(c)

\* ------------------------------------------ acq_helpers.roundup, update_sweep
\* float(n) of a whole number n, and int(x) of a float x >= 0
Float(n) == n * FloatUnit
ToInt(x) == x \div FloatUnit

RECURSIVE Pow2(_)
Pow2(n) == IF n = 0 THEN 1 ELSE 2 * Pow2(n - 1)

\* The distance between neighbouring floats at x >= 0.
RECURSIVE UlpFrom(_, _)
UlpFrom(x, u) == IF x < Pow2(FloatDigits) * u THEN u ELSE UlpFrom(x, 2 * u)
Ulp(x) == UlpFrom(x, 1)

\* The float nearest to the exact result x >= 0, ties to the even one.
Fl(x) ==
    LET u == Ulp(x)
        lo == (x \div u) * u
    IN  IF x = lo \/ 2 * (x - lo) < u THEN lo
        ELSE IF 2 * (x - lo) > u THEN lo + u
        ELSE IF (lo \div u) % 2 = 0 THEN lo ELSE lo + u

\* x + y, x - y of floats, x * n and x / n of a float and a whole number
FAdd(x, y) == Fl(x + y)
FSub(x, y) == IF x >= y THEN Fl(x - y) ELSE 0 - Fl(y - x)
FTimes(x, n) == Fl(x * n)
FDiv(x, n) == Fl((2 * x + n) \div (2 * n))

\* roundup(num, to_nearest) of acq_helpers on floats: num % to_nearest is
\* exact, the sum and the difference are rounded, int() cuts the fraction.
roundup(num, to_nearest) ==
    LET remainder == num % to_nearest
    IN  IF remainder = 0 THEN ToInt(num)
        ELSE ToInt(FSub(FAdd(num, to_nearest), remainder))

\* SamplesAcqParam.update_sweep: the shape of each of the two outputs
update_sweep(npts) ==
    IF ctor.demod_length > 1 THEN << ctor.demod_length, npts >> ELSE << npts >>

\* "x or 0" on a parameter value
OrZero(x) == IF x = None THEN 0 ELSE x

\* The state the check_and_update functions read and write.
HDState(c, p, q) == [exc |-> "", ctl |-> c, params |-> p, acquisition |-> q]
Raise(st, e) == [st EXCEPT !.exc = e]

\* ------------------------------------------------------ _update_int_delay
\* An update that reads the Alazar's sample rate before it checks the value.
update_int_delay_rate_first(st, value, a) ==
    LET rate == a.sample_rate
        st1 == [st EXCEPT !.ctl.sample_rate = rate]
        int_time == OrZero(st.params.int_time)
        spr == roundup(FTimes(FAdd(value, int_time), rate),
                       Float(SamplesDivisor))
    IN  IF value = None \/ ~(0 <= value /\ value <= Float(IntTimeLimit))
        THEN Raise(st1, "ValueError")
        ELSE [st1 EXCEPT
                !.ctl.samples_per_record = spr,
                !.acquisition.shapes =
                    update_sweep(ToInt(FTimes(int_time, rate))),
                !.acquisition.acquisition_kwargs.samples_per_record = spr]

update_int_delay(st, value, a) ==
    IF value = None \/ ~(0 <= value /\ value <= Float(IntTimeLimit))
    THEN Raise(st, "ValueError")
    ELSE
      LET rate == a.sample_rate
          int_time == OrZero(st.params.int_time)
          npts == ToInt(FTimes(int_time, rate))
          total_time == FAdd(value, int_time)
          samples_needed == FTimes(total_time, rate)
          spr == roundup(samples_needed, Float(SamplesDivisor))
      IN  [st EXCEPT !.ctl.sample_rate = rate,
                     !.ctl.samples_per_record = spr,
                     !.acquisition.shapes = update_sweep(npts),
                     !.acquisition.acquisition_kwargs.samples_per_record = spr]

\* _int_delay_default: sets sample_rate, returns (numtaps - 1) / sample_rate
int_delay_default(a) == FDiv(Float(ctor.numtaps - 1), a.sample_rate)

\* AcqVariablesParam.set for int_delay
set_int_delay(st, value, a) ==
    LET st1 == update_int_delay(st, value, a)
    IN  IF st1.exc # "" THEN st1 ELSE [st1 EXCEPT !.params.int_delay = value]

\* AcqVariablesParam.to_default for int_delay
int_delay_to_default(st, a) ==
    set_int_delay([st EXCEPT !.ctl.sample_rate = a.sample_rate],
                  int_delay_default(a), a)

\* ------------------------------------------------------- _update_int_time
update_int_time(st, value, a) ==
    IF value = None \/ ~(0 <= value /\ value <= Float(IntTimeLimit))
    THEN Raise(st, "ValueError")
    ELSE
      LET rate == a.sample_rate
          st1 == [st EXCEPT !.ctl.sample_rate = rate]
          st2 == IF st1.params.int_delay = None
                 THEN int_delay_to_default(st1, a) ELSE st1
          int_delay == st2.params.int_delay
          npts == ToInt(FTimes(value, rate))
          total_time == FAdd(value, int_delay)
          samples_needed == FTimes(total_time, rate)
          spr == roundup(samples_needed, Float(SamplesDivisor))
      IN  IF st2.exc # "" THEN st2
          ELSE [st2 EXCEPT
                  !.ctl.samples_per_record = spr,
                  !.acquisition.shapes = update_sweep(npts),
                  !.acquisition.acquisition_kwargs.samples_per_record = spr]

\* A set that saves the value without regard to the check's outcome.
set_int_time_unchecked(st, value, a) ==
    [update_int_time(st, value, a) EXCEPT !.params.int_time = value]

\* AcqVariablesParam.set for int_time
set_int_time(st, value, a) ==
    LET st1 == update_int_time(st, value, a)
    IN  IF st1.exc # "" THEN st1 ELSE [st1 EXCEPT !.params.int_time = value]

\* _int_time_default: "samples_per_record is (0 or None)" is
\* "samples_per_record is None"; then sample_rate is set and
\* samples_per_record / sample_rate - (int_delay or 0) returned.
int_time_default(c, p, a) ==
    FSub(FDiv(Float(c.samples_per_record), a.sample_rate),
         OrZero(p.int_delay))

\* AcqVariablesParam.to_default for int_time
int_time_to_default(st, a) ==
    IF st.ctl.samples_per_record = None THEN Raise(st, "ValueError")
    ELSE set_int_time([st EXCEPT !.ctl.sample_rate = a.sample_rate],
                      int_time_default(st.ctl, st.params, a), a)

\* A to_default that returns quietly when there is no default_fn.
demod_freq_to_default_quiet(st) == st

\* AcqVariablesParam.to_default for demod_freq_i, which has no default_fn
demod_freq_to_default(st) == Raise(st, "AttributeError")

\* ----------------------------------------------------- _update_demod_freq
\* param_name.split() of 'demod_freq_<i>' has no all-digit word, so the
\* index lookup [...][0] raises IndexError whenever it is reached.
update_demod_freq(st, value, a) ==
    IF value = None \/ ~(demod_freq_min <= value /\ value <= demod_freq_max)
    THEN Raise(st, "ValueError")
    ELSE
      LET st1 == [st EXCEPT !.ctl.sample_rate = a.sample_rate]
      IN  IF st1.params.int_time = None THEN Raise(st1, "TypeError")
          ELSE Raise(st1, "IndexError")

\* AcqVariablesParam.set for demod_freq_i
set_demod_freq(st, i, value, a) ==
    LET st1 == update_demod_freq(st, value, a)
    IN  IF st1.exc # "" THEN st1
        ELSE [st1 EXCEPT !.params.demod_freq[i] = value]

\* ------------------------------------------------- update_acquisition_kwargs
\* Keyword arguments are a record; Unset marks a keyword that is not given.
KwargChoices ==
    [samples_per_record : {Unset} \cup NptsChoices,
     records_per_buffer : NptsChoices,
     buffers_per_acquisition : 1..MaxBuffers]

\* dict.update(**kw)
MergeKwargs(old, kw) ==
    [k \in DOMAIN old |-> IF kw[k] # Unset THEN kw[k] ELSE old[k]]

\* An update that merges the keyword arguments before it raises.
update_acquisition_kwargs_hd_merging(st, kw) ==
    LET merged == [st EXCEPT !.acquisition.acquisition_kwargs =
                       MergeKwargs(st.acquisition.acquisition_kwargs, kw)]
    IN  IF kw.samples_per_record # Unset THEN Raise(merged, "ValueError")
        ELSE merged

\* HD_Samples_Controller.update_acquisition_kwargs
update_acquisition_kwargs_hd(st, kw) ==
    IF kw.samples_per_record # Unset THEN Raise(st, "ValueError")
    ELSE [st EXCEPT !.acquisition.acquisition_kwargs =
                        MergeKwargs(st.acquisition.acquisition_kwargs, kw)]

\* update_acquisition_kwargs of the VNA and Reflectometry controllers
update_acquisition_kwargs_iq(st, kw) ==
    IF kw.samples_per_record = Unset THEN Raise(st, "KeyError")
    ELSE [st EXCEPT !.ctl.samples_per_record = kw.samples_per_record,
                    !.acquisition.shapes = << kw.samples_per_record >>,
                    !.acquisition.acquisition_kwargs =
                        MergeKwargs(st.acquisition.acquisition_kwargs, kw)]

update_acquisition_kwargs(st, kw) ==
    IF ctor.kind = "HD" THEN update_acquisition_kwargs_hd(st, kw)
    ELSE update_acquisition_kwargs_iq(st, kw)

\* IQMagPhase.setup_sweep of the two Reflectometry controllers
setup_sweep(st, buffers_per_acquisition) ==
    LET x == st.ctl.x_npts
        y == st.ctl.y_npts
        kw == IF ctor.kind = "RF"
              THEN [samples_per_record |-> x, records_per_buffer |-> y,
                    buffers_per_acquisition |-> buffers_per_acquisition]
              ELSE [samples_per_record |-> x * y, records_per_buffer |-> 1,
                    buffers_per_acquisition |-> buffers_per_acquisition]
    IN  IF y = None THEN Raise(st, "TypeError")
        ELSE IF x = None /\ ctor.kind = "RF2" THEN Raise(st, "TypeError")
        ELSE [update_acquisition_kwargs_iq(st, kw) EXCEPT
                 !.acquisition.shapes = << y, x >>]

\* ------------------------------------------------------- IQMagPhase.get
\* A get that returns nothing of what acquire returned.
get_value_dropped(v) == NoValue

\* What the acquisition parameter's get makes of acquire's return value:
\* SamplesAcqParam.get and the Reflectometry IQMagPhase.get pass I and Q
\* on; the VNA's IQMagPhase.get averages each over the samples.
get_value(v) ==
    IF ctor.kind = "VNA"
    THEN [v EXCEPT !.A = << SumSeq(v.A) >>, !.B = << SumSeq(v.B) >>,
                   !.den = v.den * Len(v.A)]
    ELSE v

\* ------------------------------------------------------------ construction
\* bits_per_sample of the boards the controllers are written for: the HD
\* controller for the 12-bit ATS9360, the Reflectometry controllers for a
\* 16-bit board; the VNA controller branches on 12, 16 and anything else.
BitsPerSample(kind) ==
    CASE kind = "HD" -> {12}
      [] kind = "VNA" -> {12, 14, 16}
      [] OTHER -> {16}

\* Constructor arguments of HD_Samples_Controller:
\* << chan_b, filter, demod_length, numtaps >>
HDConstructions ==
    { << chan_b, filter, dn[1], dn[2] >> :
        chan_b \in BOOLEAN, filter \in {0, 1}, dn \in {<< 1, 3 >>, << 2, 1 >>} }

\* __init__ of the controller classes
Constructed(kind, chan_b, demod_length, numtaps, filter) ==
    /\ ctor = [kind |-> kind, chan_b |-> chan_b,
               demod_length |-> demod_length, numtaps |-> numtaps,
               number_of_channels |-> 2]
    /\ filter_settings = filter
    /\ ctl = [samples_per_record |-> IF kind = "HD" THEN None ELSE Unset,
              sample_rate |-> IF kind = "HD" THEN None ELSE Unset,
              records_per_buffer |-> Unset,
              buffers_per_acquisition |-> Unset,
              board_info |-> Unset,
              buffer |-> << >>,
              allocated |-> FALSE,
              demod_mat |-> [freqs |-> << >>, samples |-> Unset,
                             sample_rate |-> Unset],
              x_npts |-> None, y_npts |-> None]
    /\ params = [int_time |-> None, int_delay |-> None,
                 demod_freq |-> [i \in 1..demod_length |-> None]]
    /\ acquisition =
          [acquisition_kwargs |-> [samples_per_record |-> Unset,
                                   records_per_buffer |-> Unset,
                                   buffers_per_acquisition |-> Unset],
           shapes |-> IF kind = "HD" THEN << Unset >> ELSE << >>]

\* acq.pc: the callback acquire is about to make; acq.n: buffers handed
\* over so far; acq.calls: the callbacks made by the latest acquire;
\* acq.runs: acquisitions whose buffers were all handed over.
AcqIdle == [pc |-> "idle", n |-> 0, via_get |-> FALSE, calls |-> << >>,
            post_value |-> NoValue, runs |-> 0]

\* The Alazar instrument after its construction and configuration.
AlazarConfigured(rate, bps) ==
    alazar = [samples_per_record |-> SamplesDivisor,
              records_per_buffer |-> 1,
              buffers_per_acquisition |-> 1,
              sample_rate |-> rate,
              bits_per_sample |-> bps]

AcqFresh ==
    /\ acq = AcqIdle
    /\ delivered = << >>
    /\ ret = Outcome("init", "", NoValue)

\* A controller and its Alazar that nobody calls.
AcqUnused ==
    /\ Constructed("VNA", FALSE, 1, 1, 0)
    /\ AlazarConfigured(1, 16)
    /\ AcqFresh
    /\ calls_left = 0

\* LCR.__init__ (trace_ready = False) and Reflectometry.__init__ (the
\* ManualParameters without initial value); budget calls may follow.
ScopeIdle == [pc |-> "idle", ch |-> 0, triggers |-> 0, answers |-> << >>,
              flushes |-> 0]

ScopeConstructed(budget) ==
    /\ trace_ready = FALSE
    /\ rf = [frequency |-> None, start |-> None, end |-> None,
             average |-> None, has_channels |-> FALSE]
    /\ wire = << >>
    /\ scope = ScopeIdle
    /\ scope_ret = [op |-> "init", exc |-> ""]
    /\ prepared = FALSE
    /\ scope_calls_left = budget

\* The uuids of the Holders and the keys of their dictionaries; Missing
\* marks a key, or an attribute, that is not there.
Uuids == 1..2
Keys == {"happiness", "Carmen Sandiego"}
Missing == "<missing>"

\* Holder.__init__: self.d = {}
HolderNew == [d |-> [k \in Keys |-> Missing], server_extras |-> Missing]

\* The queues of TestInstrumentServer.setUpClass and a server about to
\* start; schedule may put budget queries.
ServerConstructed(budget) ==
    /\ query_queue = << >>
    /\ response_queue = << >>
    /\ error_queue = << >>
    /\ instruments = [u \in Uuids |-> [held |-> FALSE, holder |-> HolderNew]]
    /\ running = TRUE
    /\ handled = << >>
    /\ to_send = budget

\* CurrentParameter.get's value (volt, current); NoPair when there is none.
NoPair == [set |-> FALSE, volt |-> 0, current |-> 0]
Pair(volt, current) == [set |-> TRUE, volt |-> volt, current |-> current]

\* SR570.__init__ (invert = False, the initial sensitivity as one unit) and
\* CurrentParameter.__init__ on a measured parameter that reads 0.
AmpConstructed ==
    /\ amp = [invert |-> FALSE, sensitivity |-> 1]
    /\ measured = 0
    /\ latest = NoPair
    /\ amp_ret = [op |-> "init", exc |-> "", value |-> NoPair]

\* initialise_database: no experiment, no dataset; the test may make budget
\* calls.
DbConstructed(budget) ==
    /\ experiments = 0
    /\ runs = << >>
    /\ loaded = [run_id |-> 0, completed |-> FALSE, exp_id |-> 0]
    /\ db_calls = << >>
    /\ db_left = budget

\* No AlazarTech_ATS9462 is being constructed.
AtsUnused ==
    /\ ats_model = "ATS9462"
    /\ ats_params = << >>
    /\ ats_pc = "unused"
    /\ ats_sets = 0

AcqInit ==
    /\ \/ \E h \in HDConstructions : Constructed("HD", h[1], h[3], h[4], h[2])
       \/ \E kind \in Kinds \ {"HD"} : Constructed(kind, FALSE, 1, 1, 0)
    /\ \E rate \in IF ctor.kind = "HD" THEN Rates ELSE {1},
          bps \in BitsPerSample(ctor.kind) : AlazarConfigured(rate, bps)
    /\ AcqFresh
    /\ calls_left = MaxCalls + (IF IsRF THEN 1 ELSE 0)
    /\ ScopeConstructed(0)
    /\ ServerConstructed(0)
    /\ AmpConstructed
    /\ DbConstructed(0)
    /\ AtsUnused

\* ------------------------------------------------ calls made by the user
Idle == acq.pc = "idle"

\* The user makes one more call.
Call == Idle /\ calls_left > 0 /\ calls_left' = calls_left - 1

\* Apply the outcome st of a call named op to the controller.
Finish(op, st) ==
    /\ ctl' = st.ctl
    /\ params' = st.params
    /\ acquisition' = st.acquisition
    /\ ret' = Outcome(op, st.exc, NoValue)
    /\ UNCHANGED otherThanAcq
    /\ UNCHANGED << ctor, filter_settings, alazar, acq, delivered >>

Now == HDState(ctl, params, acquisition)

\* The values given to int_time and int_delay: None, a negative one, 0,
\* the smallest one above 0, the limit, and the smallest one above it.
TimeInputs == {None, -1, 0, 1, Float(IntTimeLimit), Float(IntTimeLimit) + 1}

SetIntTime ==
    /\ Call /\ ctor.kind = "HD"
    /\ \E value \in TimeInputs : Finish("int_time", set_int_time(Now, value, alazar))

SetIntDelay ==
    /\ Call /\ ctor.kind = "HD"
    /\ \E value \in TimeInputs :
          Finish("int_delay", set_int_delay(Now, value, alazar))

SetDemodFreq ==
    /\ Call /\ ctor.kind = "HD"
    /\ \E i \in 1..ctor.demod_length, value \in DemodInputs \cup {None} :
          Finish("demod_freq", set_demod_freq(Now, i, value, alazar))

IntTimeToDefault ==
    /\ Call /\ ctor.kind = "HD"
    /\ Finish("int_time.to_default", int_time_to_default(Now, alazar))

IntDelayToDefault ==
    /\ Call /\ ctor.kind = "HD"
    /\ Finish("int_delay.to_default", int_delay_to_default(Now, alazar))

DemodFreqToDefault ==
    /\ Call /\ ctor.kind = "HD"
    /\ Finish("demod_freq.to_default", demod_freq_to_default(Now))

\* HD_Samples_Controller.update_filter_settings
UpdateFilterSettings ==
    /\ Call /\ ctor.kind = "HD"
    /\ \E filter \in {0, 1} : filter_settings' = filter
    /\ ret' = Outcome("update_filter_settings", "", NoValue)
    /\ UNCHANGED otherThanAcq
    /\ UNCHANGED << ctor, ctl, params, acquisition, alazar, acq, delivered >>

UpdateAcquisitionKwargs ==
    /\ Call
    /\ \E kw \in KwargChoices :
          Finish("update_acquisition_kwargs", update_acquisition_kwargs(Now, kw))

\* x_npts.set, y_npts.set (ManualParameter)
SetXNpts ==
    /\ Call /\ IsRF
    /\ \E x \in NptsChoices : Finish("x_npts", [Now EXCEPT !.ctl.x_npts = x])

SetYNpts ==
    /\ Call /\ IsRF
    /\ \E y \in NptsChoices : Finish("y_npts", [Now EXCEPT !.ctl.y_npts = y])

SetupSweep ==
    /\ Call /\ IsRF
    /\ \E b \in 1..MaxBuffers : Finish("setup_sweep", setup_sweep(Now, b))

\* The Alazar's sample rate is reconfigured (alazar.config).
AlazarConfig ==
    /\ Call /\ ctor.kind = "HD"
    /\ \E rate \in Rates \ {alazar.sample_rate} :
          alazar' = [alazar EXCEPT !.sample_rate = rate]
    /\ ret' = Outcome("config", "", NoValue)
    /\ UNCHANGED otherThanAcq
    /\ UNCHANGED << ctor, filter_settings, ctl, params, acquisition, acq,
                    delivered >>

\* post_acquire called on the controller outside an acquisition
CallPostAcquire ==
    /\ Call
    /\ LET r == post_acquire(ctl, filter_settings)
       IN  ret' = Outcome("post_acquire", r.exc, r.value)
    /\ UNCHANGED otherThanAcq
    /\ UNCHANGED << ctor, filter_settings, ctl, params, acquisition, alazar,
                    acq, delivered >>

\* ------------------------------------------------ AlazarTech_ATS.acquire
\* acquire(acquisition_controller, **kwargs): every keyword given (and not
\* None) is written to the instrument's parameter of that name.
set_if_present(a, kw) ==
    [k \in DOMAIN a |->
        IF k \in DOMAIN kw /\ kw[k] # Unset /\ kw[k] # None THEN kw[k] ELSE a[k]]

StartAcquire(kw, via_get) ==
    /\ Call
    /\ alazar' = set_if_present(alazar, kw)
    /\ acq' = [pc |-> "pre_start_capture", n |-> 0, via_get |-> via_get,
               calls |-> << >>, post_value |-> NoValue, runs |-> acq.runs]
    /\ ret' = Outcome("running", "", NoValue)
    /\ UNCHANGED otherThanAcq
    /\ UNCHANGED << ctor, filter_settings, ctl, params, acquisition,
                    delivered >>

\* acquisition.get(): alazar.acquire(acquisition_controller=self._instrument,
\*                                   **self.acquisition_kwargs)
Get == StartAcquire(acquisition.acquisition_kwargs, TRUE)

\* alazar.acquire called with keywords of the caller's choice
AcquireDirect ==
    \E spr \in NptsChoices :
        StartAcquire([samples_per_record |-> spr], FALSE)

AcquireOp == IF acq.via_get THEN "get" ELSE "acquire"

\* An exception in a callback ends acquire (and get) with that exception.
Abort(exc) ==
    /\ acq' = [acq EXCEPT !.pc = "idle",
                          !.calls = Append(acq.calls, acq.pc)]
    /\ ret' = Outcome(AcquireOp, exc, NoValue)

AcquirePreStartCapture ==
    /\ acq.pc = "pre_start_capture"
    /\ LET r == pre_start_capture(ctl, params, alazar)
       IN  IF r.exc # ""
           THEN Abort(r.exc) /\ UNCHANGED << ctl, delivered >>
           ELSE /\ ctl' = r.ctl
                /\ delivered' = << >>
                /\ acq' = [acq EXCEPT !.pc = "pre_acquire",
                              !.calls = Append(acq.calls, "pre_start_capture")]
                /\ UNCHANGED ret
    /\ UNCHANGED otherThanAcq
    /\ UNCHANGED << ctor, filter_settings, params, acquisition, alazar,
                    calls_left >>

\* pre_acquire: pass
AcquirePreAcquire ==
    /\ acq.pc = "pre_acquire"
    /\ acq' = [acq EXCEPT !.pc = "handle_buffer",
                          !.calls = Append(acq.calls, "pre_acquire")]
    /\ UNCHANGED otherThanAcq
    /\ UNCHANGED << ctor, filter_settings, ctl, params, acquisition, alazar,
                    delivered, ret, calls_left >>

\* The board fills a buffer of samples_per_record * records_per_buffer
\* samples for each of the two channels and hands it to handle_buffer.
AcquireHandleBuffer ==
    /\ acq.pc = "handle_buffer"
    /\ acq.n < alazar.buffers_per_acquisition
    /\ \E data \in DataBuffers(alazar.samples_per_record
                                 * alazar.records_per_buffer * 2) :
          /\ ctl' = handle_buffer(ctl, data)
          /\ delivered' = Append(delivered, data)
    /\ acq' = [acq EXCEPT !.n = acq.n + 1,
                          !.calls = Append(acq.calls, "handle_buffer")]
    /\ UNCHANGED otherThanAcq
    /\ UNCHANGED << ctor, filter_settings, params, acquisition, alazar, ret,
                    calls_left >>

AcquirePostAcquire ==
    /\ acq.pc = "handle_buffer"
    /\ acq.n = alazar.buffers_per_acquisition
    /\ LET r == post_acquire(ctl, filter_settings)
       IN  IF r.exc # ""
           THEN /\ acq' = [acq EXCEPT !.pc = "idle",
                              !.calls = Append(acq.calls, "post_acquire"),
                              !.runs = acq.runs + 1]
                /\ ret' = Outcome(AcquireOp, r.exc, NoValue)
           ELSE /\ acq' = [acq EXCEPT !.pc = "return",
                              !.calls = Append(acq.calls, "post_acquire"),
                              !.post_value = r.value,
                              !.runs = acq.runs + 1]
                /\ UNCHANGED ret
    /\ UNCHANGED otherThanAcq
    /\ UNCHANGED << ctor, filter_settings, ctl, params, acquisition, alazar,
                    delivered, calls_left >>

\* acquire returns post_acquire's value; get returns what it makes of it.
AcquireReturn ==
    /\ acq.pc = "return"
    /\ acq' = [acq EXCEPT !.pc = "idle"]
    /\ ret' = Outcome(AcquireOp, "",
                      IF acq.via_get THEN get_value(acq.post_value)
                      ELSE acq.post_value)
    /\ UNCHANGED otherThanAcq
    /\ UNCHANGED << ctor, filter_settings, ctl, params, acquisition, alazar,
                    delivered, calls_left >>

AcqNext ==
    \/ SetIntTime
    \/ SetIntDelay
    \/ SetDemodFreq
    \/ IntTimeToDefault
    \/ IntDelayToDefault
    \/ DemodFreqToDefault
    \/ UpdateFilterSettings
    \/ UpdateAcquisitionKwargs
    \/ SetXNpts
    \/ SetYNpts
    \/ SetupSweep
    \/ AlazarConfig
    \/ CallPostAcquire
    \/ Get
    \/ AcquireDirect
    \/ AcquirePreStartCapture
    \/ AcquirePreAcquire
    \/ AcquireHandleBuffer
    \/ AcquirePostAcquire
    \/ AcquireReturn

SpecAcq == AcqInit /\ [][AcqNext]_vars

\* ------------------------------------- properties of the acquisition callbacks
\* Element-wise sum of data buffers of n samples each (zeros for none).
RECURSIVE SumOfBuffers(_, _)
SumOfBuffers(ds, n) ==
    IF ds = << >> THEN Zeros(n)
    ELSE [i \in 1..n |-> SumOfBuffers(Tail(ds), n)[i] + Head(ds)[i]]

IsPrefix(s, t) == Len(s) <= Len(t) /\ \A i \in 1..Len(s) : s[i] = t[i]

\* The callbacks of an acquisition of k buffers, in order.
ExpectedCalls(k) ==
    << "pre_start_capture", "pre_acquire" >>
        \o [i \in 1..k |-> "handle_buffer"] \o << "post_acquire" >>

\* C1: in every controller, once pre_start_capture has succeeded and
\* handle_buffer has been called n >= 0 times since, the accumulator is the
\* element-wise sum of the n data buffers delivered (zeros for n = 0), and a
\* handle_buffer call changes nothing of the controller but the accumulator.
C1_BufferIsSumOfDelivered ==
    /\ [](ctl.allocated =>
            ctl.buffer = SumOfBuffers(delivered, Len(ctl.buffer)))
    /\ [][acq.pc = "handle_buffer" /\ acq'.n = acq.n + 1 =>
            /\ [ctl' EXCEPT !.buffer = ctl.buffer] = ctl
            /\ Len(delivered') = Len(delivered) + 1
            /\ UNCHANGED << ctor, filter_settings, params, acquisition >>]_vars

\* Two buffers of different data have been summed into the accumulator.
C1_Witness ==
    /\ ctl.allocated /\ acq.pc = "handle_buffer" /\ acq.n = 2
    /\ Len(delivered) = 2 /\ delivered[1] # delivered[2]
    /\ ctl.buffer = AddArrays(delivered[1], delivered[2])

\* C2: the callbacks of one acquire come in the order pre_start_capture,
\* pre_acquire, buffers_per_acquisition times handle_buffer, post_acquire;
\* acquire returns only after post_acquire, with post_acquire's value, and
\* get returns what is derived from that value: the value itself, or for the
\* VNA controller the sums of I and Q over the samples with the divisor
\* multiplied by the number of samples.
C2_CallbackOrder ==
    /\ IsPrefix(acq.calls, ExpectedCalls(alazar.buffers_per_acquisition))
    /\ acq.pc = "return" =>
          /\ acq.calls = ExpectedCalls(alazar.buffers_per_acquisition)
          /\ acq.post_value = post_acquire(ctl, filter_settings).value
    /\ ret.op \in {"get", "acquire"} /\ ret.exc = "" =>
          /\ acq.pc = "idle"
          /\ acq.calls = ExpectedCalls(alazar.buffers_per_acquisition)
          /\ ret.value.conv = acq.post_value.conv
          /\ IF ret.op = "get" /\ ctor.kind = "VNA"
             THEN /\ ret.value.A = << SumSeq(acq.post_value.A) >>
                  /\ ret.value.B = << SumSeq(acq.post_value.B) >>
                  /\ ret.value.den
                        = acq.post_value.den * Len(acq.post_value.A)
             ELSE ret.value = acq.post_value

\* A get of two buffers has returned a value.
C2_Witness ==
    /\ ret.op = "get" /\ ret.exc = "" /\ acq.pc = "idle"
    /\ alazar.buffers_per_acquisition = 2
    /\ Len(acq.calls) = 5
    /\ ret.value.A # << >>

\* C3: in every controller, a pre_start_capture that finds the cached
\* samples_per_record different from the Alazar's raises, and leaves buffer,
\* records_per_buffer, buffers_per_acquisition and board_info as they were.
C3_MismatchRaises ==
    [][acq.pc = "pre_start_capture"
         /\ ctl.samples_per_record # alazar.samples_per_record =>
            /\ acq'.pc = "idle"
            /\ ret'.exc # ""
            /\ ctl'.buffer = ctl.buffer
            /\ ctl'.records_per_buffer = ctl.records_per_buffer
            /\ ctl'.buffers_per_acquisition = ctl.buffers_per_acquisition
            /\ ctl'.board_info = ctl.board_info]_vars

\* An acquire with another samples_per_record has been refused by a
\* controller that holds the data of an earlier acquisition.
C3_Witness ==
    /\ ret.op = "acquire" /\ ret.exc = "Exception"
    /\ acq.calls = << "pre_start_capture" >>
    /\ ctl.samples_per_record \in NptsChoices
    /\ ctl.samples_per_record # alazar.samples_per_record
    /\ ctl.allocated /\ delivered # << >>
    /\ ctl.buffer = SumOfBuffers(delivered, Len(ctl.buffer))

\* C4: every successful pre_start_capture leaves a new accumulator of
\* samples_per_record * records_per_buffer * number_of_channels zeros, with
\* number_of_channels = 2, so that what post_acquire returns is computed from
\* the buffers of its own acquisition only.
C4_FreshZeroBuffer ==
    /\ ctor.number_of_channels = 2
    /\ acq.pc = "pre_acquire" =>
          /\ delivered = << >>
          /\ ctl.buffer = Zeros(alazar.samples_per_record
                                  * alazar.records_per_buffer * 2)
    /\ acq.pc = "return" =>
          acq.post_value =
             post_acquire([ctl EXCEPT !.buffer =
                              SumOfBuffers(delivered,
                                           alazar.samples_per_record
                                             * alazar.records_per_buffer * 2)],
                          filter_settings).value

\* A second acquisition starts from zeros although the first one left data
\* in an accumulator of the same length.
C4_Witness ==
    /\ acq.pc = "pre_acquire" /\ acq.runs = 1
    /\ Len(ctl.buffer) > 0
    /\ ctl.buffer = Zeros(Len(ctl.buffer))

\* The latest call that finished ended in post_acquire: post_acquire called
\* on its own, or an acquire (or get) whose last callback was post_acquire.
PostAcquireCalled ==
    \/ ret.op = "post_acquire"
    \/ /\ ret.op \in {"get", "acquire"} /\ acq.pc = "idle"
       /\ acq.calls # << >> /\ acq.calls[Len(acq.calls)] = "post_acquire"

\* C7: post_acquire of an HD_Samples_Controller raises NotImplementedError,
\* and returns no result, whenever the controller was constructed with
\* chan_b = True or has the least-squares filter selected; with chan_b =
\* False and the window filter it never raises NotImplementedError.
C7_NotImplemented ==
    ctor.kind = "HD" /\ PostAcquireCalled =>
        IF ctor.chan_b \/ filter_settings = 1
        THEN ret.exc = "NotImplementedError"
        ELSE ret.exc # "NotImplementedError"

\* ===================================================== LeCroy oscilloscope
MaxAverage == 2       \* largest number of averages (single triggers per get)
MaxScopeCalls == 3    \* calls the user makes on the oscilloscope

Channels == 1..2

\* What a query to the oscilloscope can end in: an answer that parses, an
\* answer that does not (ValueError), no answer in time (VisaIOError).
QueryOutcomes == {"ok", "ValueError", "VisaIOError"}

Repeat(cmds, n) == [i \in 1..(n * Len(cmds)) |-> cmds[((i - 1) % Len(cmds)) + 1]]

\* ScopeArray.calc_set_points: three asks, then the answers are parsed and
\* np.linspace is called with a float number of points (a TypeError with a
\* numpy that wants an integer there).
ScopeReplies ==
    { [exc |-> e, asks |-> 3] : e \in {"", "ValueError", "TypeError"} }
        \cup { [exc |-> "VisaIOError", asks |-> k] : k \in 1..3 }

\* ScopeArray.prepare_curvedata
scope_prepare_curvedata(tr, reply) ==
    [exc |-> reply.exc,
     trace_ready |-> IF reply.exc = "" THEN TRUE ELSE tr,
     wire |-> Repeat(<< "VBS?" >>, reply.asks)]

\* RFTrace.calc_set_points: each answer is parsed before the next ask; then
\* frequency and start must be set and not 0, and end must be set.
RFReplies ==
    { [exc |-> "", asks |-> 3] }
        \cup { [exc |-> e, asks |-> k] :
                  e \in {"ValueError", "VisaIOError"}, k \in 1..3 }

rf_calc_set_points(r, reply) ==
    IF reply.exc # "" THEN reply.exc
    ELSE IF r.frequency = None \/ r.frequency = 0 THEN "TraceNotReady"
    ELSE IF r.start = None \/ r.start = 0 THEN "TraceNotReady"
    ELSE IF r.end = None THEN "TypeError"
    ELSE ""

\* An RFTrace.prepare_curvedata that marks the trace ready before the set
\* points are calculated.
rf_prepare_curvedata_early(tr, r, reply) ==
    [exc |-> rf_calc_set_points(r, reply),
     trace_ready |-> TRUE,
     rf |-> [r EXCEPT !.has_channels = TRUE],
     wire |-> Repeat(<< "VBS?" >>, reply.asks)]

\* RFTrace.prepare_curvedata
rf_prepare_curvedata(tr, r, reply) ==
    LET e == rf_calc_set_points(r, reply)
    IN  [exc |-> e,
         trace_ready |-> IF e = "" THEN TRUE ELSE tr,
         rf |-> [r EXCEPT !.has_channels = TRUE],
         wire |-> Repeat(<< "VBS?" >>, reply.asks)]

\* ScopeArray._curveasker, after the first waveform query: where it goes on.
after_first_query(outcome) ==
    CASE outcome = "ok" -> "auto"
      [] outcome = "ValueError" -> "flush"
      [] OTHER -> "raise"

\* A _curveasker that flushes and asks again after every ValueError.
after_retry_again(outcome) ==
    CASE outcome = "ok" -> "auto"
      [] outcome = "ValueError" -> "flush"
      [] OTHER -> "raise"

\* ScopeArray._curveasker, after the query in the except branch.
after_retry(outcome) == IF outcome = "ok" THEN "auto" ELSE "raise"

\* RFTrace.get past its guard.  o.I, o.Q: outcomes of the two waveform
\* queries in the try block; o.I2, o.Q2: those of the except block;
\* o.scales: the scale asks parse ("ok"), the first one parses at the second
\* attempt only ("retried") or not at all ("ValueError").
RFOutcomes ==
    [I : {"ok", "ValueError"}, Q : {"ok", "ValueError"},
     I2 : {"ok", "ValueError"}, Q2 : {"ok", "ValueError"},
     scales : {"ok", "retried", "ValueError"}]

rf_get(r, o) ==
    LET start == << "AVERAGE", "AVERAGE", "CLSW" >>
                    \o Repeat(<< "TRMD SINGLE", "WAIT" >>, r.average)
        try == IF o.I = "ok" THEN << "WAVEFORM?", "*WAI", "WAVEFORM?" >>
               ELSE << "WAVEFORM?" >>
        tried == o.I = "ok" /\ o.Q = "ok"
        again == IF o.I2 = "ok" THEN << "WAVEFORM?", "*WAI", "WAVEFORM?" >>
                 ELSE << "WAVEFORM?" >>
        waves == IF tried THEN try ELSE try \o again
        scales == CASE o.scales = "ok" -> Repeat(<< "VBS?" >>, 4)
                    [] o.scales = "retried" -> Repeat(<< "VBS?" >>, 5)
                    [] OTHER -> Repeat(<< "VBS?" >>, 2)
    IN  IF r.average = None THEN [exc |-> "TypeError", wire |-> << >>]
        ELSE IF ~r.has_channels
        THEN [exc |-> "AttributeError", wire |-> << >>]
        ELSE IF ~tried /\ (o.I2 # "ok" \/ o.Q2 # "ok")
        THEN [exc |-> "ValueError", wire |-> start \o waves]
        ELSE [exc |-> IF o.scales = "ValueError" THEN "ValueError" ELSE "",
              wire |-> start \o waves \o << "TRMD AUTO" >> \o scales]

\* ------------------------------------------- calls on the oscilloscope
ScopeCall ==
    /\ scope.pc = "idle"
    /\ scope_calls_left > 0
    /\ scope_calls_left' = scope_calls_left - 1

\* The ManualParameters of the Reflectometry channel
SetRF(name, values) ==
    /\ scope.pc = "idle" /\ scope_calls_left > 0
    /\ \E v \in values : rf' = [rf EXCEPT ![name] = v]
    /\ rf' # rf
    /\ UNCHANGED << trace_ready, wire, scope, scope_ret, prepared,
                    scope_calls_left >>
    /\ UNCHANGED otherThanScope

SetFrequency == SetRF("frequency", {1})
SetStart == SetRF("start", {0, 1})
SetEnd == SetRF("end", {1})
SetAverage == SetRF("average", 1..MaxAverage)

ScopePrepareCurvedata ==
    /\ ScopeCall
    /\ \E reply \in ScopeReplies :
          LET r == scope_prepare_curvedata(trace_ready, reply)
          IN  /\ trace_ready' = r.trace_ready
              /\ wire' = r.wire
              /\ scope_ret' = [op |-> "ScopeArray.prepare_curvedata",
                               exc |-> r.exc]
              /\ prepared' = (prepared \/ r.exc = "")
    /\ UNCHANGED << rf, scope >>
    /\ UNCHANGED otherThanScope

RFPrepareCurvedata ==
    /\ ScopeCall
    /\ \E reply \in RFReplies :
          LET r == rf_prepare_curvedata(trace_ready, rf, reply)
          IN  /\ trace_ready' = r.trace_ready
              /\ rf' = r.rf
              /\ wire' = r.wire
              /\ scope_ret' = [op |-> "RFTrace.prepare_curvedata",
                               exc |-> r.exc]
              /\ prepared' = (prepared \/ r.exc = "")
    /\ UNCHANGED scope
    /\ UNCHANGED otherThanScope

\* RFTrace.get
RFGet ==
    /\ ScopeCall
    /\ IF ~trace_ready
       THEN /\ wire' = << >>
            /\ scope_ret' = [op |-> "RFTrace.get", exc |-> "TraceNotReady"]
       ELSE \E o \in RFOutcomes :
               LET r == rf_get(rf, o)
               IN  /\ wire' = r.wire
                   /\ scope_ret' = [op |-> "RFTrace.get", exc |-> r.exc]
    /\ UNCHANGED << trace_ready, rf, scope, prepared >>
    /\ UNCHANGED otherThanScope

\* ScopeArray.get: the guard, then _curveasker step by step, then the scales.
ScopeGet ==
    /\ ScopeCall
    /\ wire' = << >>
    /\ IF ~trace_ready
       THEN /\ scope_ret' = [op |-> "ScopeArray.get", exc |-> "TraceNotReady"]
            /\ UNCHANGED scope
       ELSE /\ scope_ret' = [op |-> "running", exc |-> ""]
            /\ \E ch \in Channels :
                  scope' = [ScopeIdle EXCEPT !.pc = "clsw", !.ch = ch]
    /\ UNCHANGED << trace_ready, rf, prepared >>
    /\ UNCHANGED otherThanScope

\* One step of the running get: what it sends, where it goes on.
ScopeStep(sent, pc) ==
    /\ wire' = wire \o sent
    /\ scope' = [scope EXCEPT !.pc = pc]
    /\ UNCHANGED << trace_ready, rf, scope_ret, prepared, scope_calls_left >>
    /\ UNCHANGED otherThanScope

\* The running get ends with exception exc ("" when it returns).
ScopeEnd(sent, exc) ==
    /\ wire' = wire \o sent
    /\ scope_ret' = [op |-> "ScopeArray.get", exc |-> exc]
    /\ UNCHANGED << trace_ready, rf, prepared, scope_calls_left >>
    /\ UNCHANGED otherThanScope

\* self._instrument._parent.clsw()
CurveClsw == scope.pc = "clsw" /\ ScopeStep(<< "CLSW" >>, "average")

\* range(self._instrument.average()): the channel's average is asked for and
\* parsed as an int.
CurveAverage ==
    /\ scope.pc = "average"
    /\ \/ \E n \in 1..MaxAverage :
             /\ wire' = Append(wire, "VBS?")
             /\ scope' = [scope EXCEPT !.pc = "trigger", !.triggers = n]
             /\ UNCHANGED scope_ret
       \/ /\ wire' = Append(wire, "VBS?")
          /\ scope' = [scope EXCEPT !.pc = "idle"]
          /\ scope_ret' = [op |-> "ScopeArray.get", exc |-> "ValueError"]
    /\ UNCHANGED << trace_ready, rf, prepared, scope_calls_left >>
    /\ UNCHANGED otherThanScope

CurveTrigger ==
    /\ scope.pc = "trigger"
    /\ wire' = wire \o << "TRMD SINGLE", "WAIT" >>
    /\ scope' = [scope EXCEPT !.triggers = scope.triggers - 1,
                              !.pc = IF scope.triggers = 1 THEN "query"
                                     ELSE "trigger"]
    /\ UNCHANGED << trace_ready, rf, scope_ret, prepared, scope_calls_left >>
    /\ UNCHANGED otherThanScope

\* A waveform query with its outcome; next tells where _curveasker goes on.
CurveAsk(outcome, next) ==
    /\ scope' = [scope EXCEPT !.pc = IF next = "raise" THEN "idle" ELSE next,
                              !.answers = Append(scope.answers, outcome)]
    /\ IF next = "raise"
       THEN ScopeEnd(<< "WAVEFORM?" >>, outcome)
       ELSE /\ wire' = Append(wire, "WAVEFORM?")
            /\ UNCHANGED << trace_ready, rf, scope_ret, prepared,
                            scope_calls_left >>
            /\ UNCHANGED otherThanScope

\* try: values = query_binary_values(...)
CurveQuery ==
    /\ scope.pc = "query"
    /\ \E outcome \in QueryOutcomes :
          CurveAsk(outcome, after_first_query(outcome))

\* except ValueError: clear_message_queue()
CurveFlush ==
    /\ scope.pc = "flush"
    /\ scope' = [scope EXCEPT !.pc = "retry", !.flushes = scope.flushes + 1]
    /\ UNCHANGED << trace_ready, rf, wire, scope_ret, prepared,
                    scope_calls_left >>
    /\ UNCHANGED otherThanScope

\* values = query_binary_values(...) of the except branch
CurveRetry ==
    /\ scope.pc = "retry"
    /\ \E outcome \in QueryOutcomes : CurveAsk(outcome, after_retry(outcome))

\* write('TRMD AUTO'); return np.array(values)
CurveAuto == scope.pc = "auto" /\ ScopeStep(<< "TRMD AUTO" >>, "scales")

\* yoff, ymult are asked for and parsed; get returns wave*ymult+yoff.
ScopeScales ==
    /\ scope.pc = "scales"
    /\ scope' = [scope EXCEPT !.pc = "idle"]
    /\ \/ ScopeEnd(<< "VBS?", "VBS?" >>, "")
       \/ \E k \in 1..2 : ScopeEnd(Repeat(<< "VBS?" >>, k), "ValueError")

ScopeInit ==
    /\ ScopeConstructed(MaxScopeCalls)
    /\ AcqUnused
    /\ ServerConstructed(0)
    /\ AmpConstructed
    /\ DbConstructed(0)
    /\ AtsUnused

ScopeNext ==
    \/ SetFrequency
    \/ SetStart
    \/ SetEnd
    \/ SetAverage
    \/ ScopePrepareCurvedata
    \/ RFPrepareCurvedata
    \/ RFGet
    \/ ScopeGet
    \/ CurveClsw
    \/ CurveAverage
    \/ CurveTrigger
    \/ CurveQuery
    \/ CurveFlush
    \/ CurveRetry
    \/ CurveAuto
    \/ ScopeScales

SpecScope == ScopeInit /\ [][ScopeNext]_vars

\* ------------------------------------------ properties of the oscilloscope
WaveformQueries(w) == Cardinality({ i \in 1..Len(w) : w[i] = "WAVEFORM?" })

\* C5: in ScopeArray._curveasker, a ValueError from the first waveform query
\* is followed by exactly one clear_message_queue and exactly one more
\* waveform query; a ValueError from that second query reaches the caller
\* and no third query is sent; after a first query that succeeds the queue
\* is not flushed and no second query is sent.
C5_RetryOnce ==
    LET a == scope.answers
        finished == scope.pc \in {"idle", "auto", "scales"} /\ a # << >>
    IN  /\ Len(a) <= 2 /\ scope.flushes <= 1
        /\ scope.pc # "idle" => WaveformQueries(wire) = Len(a)
        /\ finished /\ a[1] = "ok" => Len(a) = 1 /\ scope.flushes = 0
        /\ finished /\ a[1] = "ValueError" => Len(a) = 2 /\ scope.flushes = 1
        /\ finished /\ a[1] = "VisaIOError" => Len(a) = 1 /\ scope.flushes = 0
        /\ /\ Len(a) = 2 /\ a[2] = "ValueError"
           /\ scope_ret.op \in {"running", "ScopeArray.get"}
           => /\ scope.pc = "idle"
              /\ scope_ret.exc = "ValueError"
              /\ WaveformQueries(wire) = 2

\* Both waveform queries of one get have ended in a ValueError.
C5_Witness ==
    /\ scope.answers = << "ValueError", "ValueError" >>
    /\ scope.flushes = 1
    /\ scope_ret = [op |-> "ScopeArray.get", exc |-> "ValueError"]

\* C6: as long as no prepare_curvedata call has returned since the
\* oscilloscope was constructed, trace_ready is False and ScopeArray.get and
\* RFTrace.get raise TraceNotReady without sending anything to the
\* instrument.
C6_TraceNotReady ==
    ~prepared =>
        /\ ~trace_ready
        /\ scope.pc = "idle"
        /\ scope_ret.op \in {"ScopeArray.get", "RFTrace.get"} =>
              scope_ret.exc = "TraceNotReady" /\ wire = << >>

\* RFTrace.get is refused after an RFTrace.prepare_curvedata that raised.
C6_Witness ==
    /\ ~prepared /\ rf.has_channels
    /\ scope_ret = [op |-> "RFTrace.get", exc |-> "TraceNotReady"]
    /\ wire = << >>

\* ======================================================= InstrumentServer
MaxQueries == 4       \* queries schedule puts on the query queue

SERVER_ERR == "SERVER_ERR"
extras == "infinity and beyond"

\* A query ('new', holder), (mode, uuid, method, args, kwargs) or
\* ('delete', uuid) as a record; kwargs is a set of << name, value >>.
Query(kind, uuid, method, args, kwargs) ==
    [kind |-> kind, uuid |-> uuid, method |-> method, args |-> args,
     kwargs |-> kwargs]

\* The calls of test_normal: sets and gets that work, a get of a key that
\* may not be there, a set with too many arguments, a set with an unexpected
\* keyword, and get_extras.
CallQueries(uuid) ==
    { Query("write", uuid, "set", << "happiness", "a warm gun" >>, {}),
      Query("write", uuid, "set", << >>,
            {<< "val", "42" >>, << "key", "happiness" >>}),
      Query("ask", uuid, "get", << >>, {<< "key", "happiness" >>}),
      Query("ask", uuid, "get", << "Carmen Sandiego" >>, {}),
      Query("write", uuid, "set", << "1", "2", "3" >>, {}),
      Query("write", uuid, "set", << >>, {<< "c", "middle" >>}),
      Query("ask", uuid, "get_extras", << >>, {}) }

\* ------------------------------------------------------------------ Holder
\* Python's binding of args and kwargs to the parameters names of a method:
\* a TypeError, or the value of each parameter.
Bind(names, args, kwargs) ==
    LET given == { kw[1] : kw \in kwargs }
    IN  IF \/ Len(args) > Len(names)
           \/ ~(given \subseteq { names[i] : i \in 1..Len(names) })
           \/ \E i \in 1..Len(args) : names[i] \in given
           \/ \E i \in (Len(args) + 1)..Len(names) : names[i] \notin given
        THEN [exc |-> "TypeError", values |-> << >>]
        ELSE [exc |-> "",
              values |-> [i \in 1..Len(names) |->
                            IF i <= Len(args) THEN args[i]
                            ELSE (CHOOSE kw \in kwargs : kw[1] = names[i])[2]]]

\* Holder.get: [exc, value, holder]
HolderGet(h, key) ==
    IF h.d[key] = Missing
    THEN [exc |-> "KeyError", value |-> "None", holder |-> h]
    ELSE [exc |-> "", value |-> h.d[key], holder |-> h]

\* Holder.set
HolderSet(h, key, val) ==
    [exc |-> "", value |-> "None", holder |-> [h EXCEPT !.d[key] = val]]

\* Holder.get_extras
HolderGetExtras(h) ==
    IF h.server_extras = Missing
    THEN [exc |-> "AttributeError", value |-> "None", holder |-> h]
    ELSE [exc |-> "", value |-> h.server_extras, holder |-> h]

\* getattr(holder, method)(*args, **kwargs)
CallMethod(h, q) ==
    LET names == CASE q.method = "get" -> << "key" >>
                   [] q.method = "set" -> << "key", "val" >>
                   [] OTHER -> << >>
        b == Bind(names, q.args, q.kwargs)
    IN  IF b.exc # ""
        THEN [exc |-> b.exc, value |-> "None", holder |-> h]
        ELSE CASE q.method = "get" -> HolderGet(h, b.values[1])
               [] q.method = "set" -> HolderSet(h, b.values[1], b.values[2])
               [] OTHER -> HolderGetExtras(h)

\* ------------------------------------------------------------- the server
\* What handling a query does: the instruments afterwards, what is put on
\* the response queue and on the error queue, and whether the loop goes on.
Handled(ins, responses, errors, going) ==
    [instruments |-> ins, responses |-> responses, errors |-> errors,
     running |-> going]

\* A server that answers nothing to a query that raised.
handle_error_silent(ins, q, exc) ==
    Handled(ins, << >>, << [type |-> exc, query |-> q] >>, TRUE)

\* An exception in a query: one error report, one SERVER_ERR.
handle_error(ins, q, exc) ==
    Handled(ins, << SERVER_ERR >>, << [type |-> exc, query |-> q] >>, TRUE)

\* ('new', holder): the instrument is kept and given the server's extras.
handle_new(ins, q) ==
    Handled([ins EXCEPT ![q.uuid] =
                [held |-> TRUE,
                 holder |-> [HolderNew EXCEPT !.server_extras = extras]]],
            << "True" >>, << >>, TRUE)

\* ('ask', uuid, method, args, kwargs): the return value is the response.
handle_ask(ins, q) ==
    LET r == CallMethod(ins[q.uuid].holder, q)
    IN  IF r.exc # "" THEN handle_error(ins, q, r.exc)
        ELSE Handled([ins EXCEPT ![q.uuid].holder = r.holder],
                     << r.value >>, << >>, TRUE)

\* A write that is answered like an ask.
handle_write_answering(ins, q) == handle_ask(ins, q)

\* ('write', uuid, method, args, kwargs): no response.
handle_write(ins, q) ==
    LET r == CallMethod(ins[q.uuid].holder, q)
    IN  IF r.exc # "" THEN handle_error(ins, q, r.exc)
        ELSE Handled([ins EXCEPT ![q.uuid].holder = r.holder],
                     << >>, << >>, TRUE)

\* A delete that leaves the loop running whatever is left.
handle_delete_only(ins, q) ==
    Handled([ins EXCEPT ![q.uuid].held = FALSE], << >>, << >>, TRUE)

\* ('delete', uuid): the loop ends with the last instrument.
handle_delete(ins, q) ==
    LET left == [ins EXCEPT ![q.uuid].held = FALSE]
    IN  Handled(left, << >>, << >>, \E u \in Uuids : left[u].held)

process_query(ins, q) ==
    CASE q.kind = "new" -> handle_new(ins, q)
      [] q.kind = "ask" -> handle_ask(ins, q)
      [] q.kind = "write" -> handle_write(ins, q)
      [] q.kind = "delete" -> handle_delete(ins, q)

\* The server takes the next query off the query queue and handles it.
ServerTake ==
    /\ running
    /\ query_queue # << >>
    /\ LET q == Head(query_queue)
           r == process_query(instruments, q)
       IN  /\ query_queue' = Tail(query_queue)
           /\ handled' = Append(handled, q)
           /\ instruments' = r.instruments
           /\ response_queue' = response_queue \o r.responses
           /\ error_queue' = error_queue \o r.errors
           /\ running' = r.running
    /\ UNCHANGED to_send
    /\ UNCHANGED otherThanServer

\* schedule: the queries are put one after the other.  A 'new' brings a
\* Holder the server has not been sent yet; the other queries name a Holder
\* that was sent and not deleted.
Sent == handled \o query_queue
SentOf(kind) == { Sent[i].uuid : i \in { j \in 1..Len(Sent) : Sent[j].kind = kind } }

Schedule ==
    /\ to_send > 0
    /\ to_send' = to_send - 1
    /\ \E q \in { Query("new", u, "", << >>, {}) : u \in Uuids \ SentOf("new") }
                 \cup UNION { CallQueries(u)
                                \cup { Query("delete", u, "", << >>, {}) } :
                              u \in SentOf("new") \ SentOf("delete") } :
          query_queue' = Append(query_queue, q)
    /\ UNCHANGED << response_queue, error_queue, instruments, running,
                    handled >>
    /\ UNCHANGED otherThanServer

ServerInit ==
    /\ ServerConstructed(MaxQueries)
    /\ AcqUnused
    /\ ScopeConstructed(0)
    /\ AmpConstructed
    /\ DbConstructed(0)
    /\ AtsUnused

ServerNext ==
    \/ Schedule
    \/ ServerTake

SpecServer == ServerInit /\ [][ServerNext]_vars

\* ----------------------------------------------- properties of the server
\* The query the server is about to take raises in its execution.
Fails(q) ==
    /\ q.kind \in {"ask", "write"}
    /\ CallMethod(instruments[q.uuid].holder, q).exc # ""

ServerErrs(rs) == Cardinality({ i \in 1..Len(rs) : rs[i] = SERVER_ERR })

\* C8: for every query whose execution raises, ask or write, the server puts
\* exactly one error report on the error queue and exactly one SERVER_ERR on
\* the response queue and keeps running, so that later queries are executed
\* and answered; a query that does not raise adds neither.
C8_OneErrorOneMarker ==
    /\ [](ServerErrs(response_queue) = Len(error_queue))
    /\ [][handled' # handled =>
            IF Fails(Head(query_queue))
            THEN /\ Len(error_queue') = Len(error_queue) + 1
                 /\ response_queue' = Append(response_queue, SERVER_ERR)
                 /\ running'
            ELSE /\ error_queue' = error_queue
                 /\ ServerErrs(response_queue') = ServerErrs(response_queue)]_vars

\* After a query that raised, an ask has been answered with its value.
C8_Witness ==
    /\ Len(handled) = 3 /\ running
    /\ handled[3].method = "get_extras"
    /\ Len(error_queue) = 1 /\ error_queue[1].query = handled[2]
    /\ response_queue = << "True", SERVER_ERR, extras >>

\* C9: the server takes the queries one at a time in the order of the query
\* queue and appends its responses in that order: one response for a 'new',
\* the return value for an ask that succeeds, none for a write that succeeds
\* or for a delete.
C9_ResponsesInOrder ==
    [][handled' # handled =>
          LET q == Head(query_queue)
              r == CallMethod(instruments[q.uuid].holder, q)
          IN  /\ handled' = Append(handled, q)
              /\ query_queue' = Tail(query_queue)
              /\ CASE q.kind = "new" ->
                        /\ Len(response_queue') = Len(response_queue) + 1
                        /\ SubSeq(response_queue', 1, Len(response_queue))
                              = response_queue
                   [] q.kind = "delete" -> response_queue' = response_queue
                   [] q.kind = "ask" /\ r.exc = "" ->
                        response_queue' = Append(response_queue, r.value)
                   [] q.kind = "write" /\ r.exc = "" ->
                        response_queue' = response_queue
                   [] OTHER -> Len(response_queue') = Len(response_queue) + 1
         ]_vars

\* A write and an ask that succeed have left the answer of the ask only.
C9_Witness ==
    /\ Len(handled) = 3
    /\ handled[2].kind = "write" /\ handled[3].kind = "ask"
    /\ query_queue # << >>
    /\ response_queue = << "True", "a warm gun" >>

\* C10: the event loop ends, and with it the InstrumentServer call, when a
\* delete removes the last instrument the server holds, no halt query being
\* there; it ends for no other reason, and a server that has stopped takes
\* no further query.
C10_StopsWithLastInstrument ==
    /\ [](~running =>
            /\ handled # << >>
            /\ handled[Len(handled)].kind = "delete"
            /\ \A u \in Uuids : ~instruments[u].held)
    /\ [][/\ handled' # handled
          /\ Head(query_queue).kind = "delete"
          /\ \A u \in Uuids : ~instruments'[u].held
          => ~running']_vars
    /\ [][~running =>
            UNCHANGED << handled, response_queue, error_queue, instruments,
                         running >>]_vars

\* The second of two instruments has been deleted and the server has
\* stopped.
C10_Witness ==
    /\ ~running
    /\ Len(handled) = 4
    /\ handled[3].kind = "delete" /\ handled[4].kind = "delete"

\* ======================================================= dataset database
MaxDbCalls == 5       \* calls the test makes on the database

\* A row of the runs table: the experiment of the run and its is_completed
\* column, 0 or 1.
Row(exp_id, is_completed) ==
    [exp_id |-> exp_id, is_completed |-> is_completed]

\* new_experiment: the experiments are numbered from 1.
new_experiment(n) == n + 1

\* new_data_set(name): a run of the latest experiment, not completed; its
\* run_id is its place in the table.
new_data_set(rs, n) == Append(rs, Row(n, 0))

\* A mark_complete that completes the latest run, whatever its own run_id.
mark_complete_latest(rs, run_id) == [rs EXCEPT ![Len(rs)].is_completed = 1]

\* DataSet.mark_complete on the dataset with this run_id
mark_complete(rs, run_id) == [rs EXCEPT ![run_id].is_completed = 1]

\* load_by_id(run_id): the dataset read back from its row
load_by_id(rs, run_id) ==
    [run_id |-> run_id,
     completed |-> rs[run_id].is_completed = 1,
     exp_id |-> rs[run_id].exp_id]

DbCall(op, run_id) ==
    /\ db_left > 0
    /\ db_left' = db_left - 1
    /\ db_calls' = Append(db_calls, [op |-> op, run_id |-> run_id])
    /\ UNCHANGED otherThanDb

NewExperiment ==
    /\ DbCall("new_experiment", 0)
    /\ experiments' = new_experiment(experiments)
    /\ UNCHANGED << runs, loaded >>

\* new_data_set needs an experiment (the test's fixture makes one).
NewDataSet ==
    /\ experiments > 0
    /\ DbCall("new_data_set", Len(runs) + 1)
    /\ runs' = new_data_set(runs, experiments)
    /\ UNCHANGED << experiments, loaded >>

MarkComplete ==
    \E run_id \in 1..Len(runs) :
        /\ DbCall("mark_complete", run_id)
        /\ runs' = mark_complete(runs, run_id)
        /\ UNCHANGED << experiments, loaded >>

LoadById ==
    \E run_id \in 1..Len(runs) :
        /\ DbCall("load_by_id", run_id)
        /\ loaded' = load_by_id(runs, run_id)
        /\ UNCHANGED << experiments, runs >>

DbInit ==
    /\ DbConstructed(MaxDbCalls)
    /\ AtsUnused
    /\ AcqUnused
    /\ ScopeConstructed(0)
    /\ ServerConstructed(0)
    /\ AmpConstructed

DbNext ==
    \/ NewExperiment
    \/ NewDataSet
    \/ MarkComplete
    \/ LoadById

SpecDb == DbInit /\ [][DbNext]_vars

\* --------------------------------------------- properties of the database
\* The calls op made before the latest call, as places in db_calls.
Earlier(op) == { i \in 1..(Len(db_calls) - 1) : db_calls[i].op = op }

\* The place in db_calls of the new_data_set call that made run_id.
CreatedAt(run_id) ==
    CHOOSE i \in Earlier("new_data_set") : db_calls[i].run_id = run_id

\* C11: the dataset load_by_id(run_id) returns is completed if and only if
\* mark_complete was called on the dataset with that run_id before the load,
\* and its exp_id is the id of the experiment it was created in, which is the
\* number of experiments made until then (1 for the first one), however many
\* other datasets were created or completed in between.
C11_LoadedAsStored ==
    db_calls # << >> /\ db_calls[Len(db_calls)].op = "load_by_id" =>
        LET run_id == db_calls[Len(db_calls)].run_id
        IN  /\ loaded.run_id = run_id
            /\ loaded.completed
                  = (\E i \in Earlier("mark_complete") :
                        db_calls[i].run_id = run_id)
            /\ loaded.exp_id
                  = Cardinality({ j \in Earlier("new_experiment") :
                                     j < CreatedAt(run_id) })
            /\ loaded.exp_id >= 1

\* The first of two datasets is loaded as not completed after the second
\* one was completed.
C11_Witness ==
    /\ Len(db_calls) = 5
    /\ db_calls[4] = [op |-> "mark_complete", run_id |-> 2]
    /\ db_calls[5] = [op |-> "load_by_id", run_id |-> 1]
    /\ loaded = [run_id |-> 1, completed |-> FALSE, exp_id |-> 1]


\* ------------------------------------ the HD controller's parameter calls
\* An HD_Samples_Controller on which the user only sets parameters, updates
\* keyword arguments and filter settings, and reconfigures the Alazar.
HDInit == AcqInit /\ ctor.kind = "HD"

HDNext ==
    \/ SetIntTime
    \/ SetIntDelay
    \/ SetDemodFreq
    \/ IntTimeToDefault
    \/ IntDelayToDefault
    \/ DemodFreqToDefault
    \/ UpdateFilterSettings
    \/ UpdateAcquisitionKwargs
    \/ AlazarConfig

SpecHD == HDInit /\ [][HDNext]_vars

\* ------------------------------------------- claims on AcqVariablesParam
\* The steps in which the user sets a parameter to a given value.
IntTimeSet(value) ==
    /\ ret'.op = "int_time"
    /\ Call /\ ctor.kind = "HD"
    /\ Finish("int_time", set_int_time(Now, value, alazar))

IntDelaySet(value) ==
    /\ ret'.op = "int_delay"
    /\ Call /\ ctor.kind = "HD"
    /\ Finish("int_delay", set_int_delay(Now, value, alazar))

DemodFreqSet(i, value) ==
    /\ ret'.op = "demod_freq"
    /\ Call /\ ctor.kind = "HD"
    /\ Finish("demod_freq", set_demod_freq(Now, i, value, alazar))

\* checked is the outcome of check_and_update: the call raises what it
\* raised and keeps the old value, or stores the value that was set.
CheckedStore(checked, old, new, value) ==
    /\ ret'.exc = checked.exc
    /\ new = (IF checked.exc # "" THEN old ELSE value)

\* C12: AcqVariablesParam.set(value) calls check_and_update with the value
\* before storing it: when that function raises, the stored value is what
\* it was before the call, and when it returns, get() returns the value set.
C12_SetChecksBeforeStoring ==
    [][ /\ \A value \in TimeInputs :
             /\ IntTimeSet(value) =>
                   CheckedStore(update_int_time(Now, value, alazar),
                                params.int_time, params'.int_time, value)
             /\ IntDelaySet(value) =>
                   CheckedStore(update_int_delay(Now, value, alazar),
                                params.int_delay, params'.int_delay, value)
        /\ \A i \in 1..ctor.demod_length, value \in DemodInputs \cup {None} :
             DemodFreqSet(i, value) =>
                CheckedStore(update_demod_freq(Now, value, alazar),
                             params.demod_freq[i], params'.demod_freq[i], value)
      ]_vars

\* A set that raised after an earlier set had stored a value, which is kept.
C12_Witness ==
    /\ ret.op = "int_time" /\ ret.exc = "ValueError"
    /\ params.int_time # None


\* C13: to_default raises AttributeError and leaves the value unchanged on
\* a parameter without default_fn (demod_freq_i); on int_time and int_delay
\* it passes the computed default through set, so that after a successful
\* to_default get() returns the value default_fn computed, and after a
\* failed one the value it returned before.
C13_ToDefault ==
    [][ /\ DemodFreqToDefault =>
              (ret'.exc = "AttributeError" /\ params' = params)
        /\ IntDelayToDefault =>
              params'.int_delay = (IF ret'.exc = "" THEN int_delay_default(alazar)
                                   ELSE params.int_delay)
        /\ IntTimeToDefault =>
              params'.int_time =
                 (IF ret'.exc = "" THEN int_time_default(ctl, params, alazar)
                  ELSE params.int_time)
      ]_vars

\* int_time.to_default() has succeeded and stored a time above 0.
C13_Witness ==
    /\ ret.op = "int_time.to_default" /\ ret.exc = ""
    /\ params.int_time > 0


\* ------------------------------- claims on update_acquisition_kwargs (HD)
\* The step in which the user updates the HD controller's keyword arguments.
KwargsUpdate(kw) ==
    /\ ret'.op = "update_acquisition_kwargs" /\ ctor.kind = "HD"
    /\ Call
    /\ Finish("update_acquisition_kwargs", update_acquisition_kwargs(Now, kw))

\* The calls that run _update_int_time or _update_int_delay.
TimeCalls ==
    {"int_time", "int_delay", "int_time.to_default", "int_delay.to_default"}

\* C14: HD_Samples_Controller.update_acquisition_kwargs raises ValueError
\* whenever samples_per_record is among the kwargs and then leaves
\* acquisition_kwargs completely unchanged; otherwise it merges all the
\* given kwargs; so acquisition_kwargs['samples_per_record'] is only ever
\* written by the int_time / int_delay update functions.
C14_KwargsNeverSetSamplesPerRecord ==
    [][ /\ \A kw \in KwargChoices :
              KwargsUpdate(kw) =>
                 IF kw.samples_per_record # Unset
                 THEN /\ ret'.exc = "ValueError"
                      /\ acquisition' = acquisition
                 ELSE /\ ret'.exc = ""
                      /\ \A k \in DOMAIN kw :
                            acquisition'.acquisition_kwargs[k] =
                               (IF kw[k] # Unset THEN kw[k]
                                ELSE acquisition.acquisition_kwargs[k])
        /\ ( /\ ctor.kind = "HD"
             /\ acquisition'.acquisition_kwargs.samples_per_record
                   # acquisition.acquisition_kwargs.samples_per_record )
              => ret'.op \in TimeCalls
      ]_vars

\* An update with samples_per_record was refused on a controller whose
\* samples_per_record int_time or int_delay had written before.
C14_Witness ==
    /\ ctor.kind = "HD"
    /\ ret.op = "update_acquisition_kwargs" /\ ret.exc = "ValueError"
    /\ ctl.samples_per_record # None
    /\ acquisition.acquisition_kwargs.samples_per_record = ctl.samples_per_record


\* --------------------------------------------------- claims on demod_freq
InDemodRange(value) ==
    value # None /\ demod_freq_min <= value /\ value <= demod_freq_max

InSeq(x, s) == \E k \in 1..Len(s) : s[k] = x

\* C15: setting demod_freq_i to a value in [1e6, 500e6] while int_time is
\* set succeeds: demod_freq_i() then returns that value and
\* get_demod_freqs() contains it; setting it to None or to a value outside
\* that range raises ValueError and leaves the parameter's value unchanged.
C15_DemodFreqInRangeIsStored ==
    [][ \A i \in 1..ctor.demod_length, value \in DemodInputs \cup {None} :
          DemodFreqSet(i, value) =>
             IF ~InDemodRange(value)
             THEN /\ ret'.exc = "ValueError"
                  /\ params'.demod_freq[i] = params.demod_freq[i]
             ELSE params.int_time # None =>
                     /\ ret'.exc = ""
                     /\ params'.demod_freq[i] = value
                     /\ InSeq(value, get_demod_freqs(params'))
      ]_vars


\* ================================================ SR570, CurrentParameter
\* The voltages the measured parameter reads, and the sensitivities the
\* user sets, in units of the initial sensitivity.
Volts == {-2, -1, 0, 1, 2}
Sensitivities == 1..3

AmpOutcome(op, exc, value) == [op |-> op, exc |-> exc, value |-> value]

\* CurrentParameter.get up to the value it builds: with invert set it
\* multiplies volt_amp, a local that was never assigned.
current_get(a, volt) ==
    LET current_amp == volt * a.sensitivity
    IN  IF a.invert THEN [exc |-> "UnboundLocalError", value |-> NoPair]
        ELSE [exc |-> "", value |-> Pair(volt, current_amp)]

\* invert.set (ManualParameter, Bool)
SetInvert ==
    /\ \E b \in BOOLEAN : amp' = [amp EXCEPT !.invert = b]
    /\ amp_ret' = AmpOutcome("invert", "", NoPair)
    /\ UNCHANGED << measured, latest >>
    /\ UNCHANGED otherThanAmp

\* sensitivity.set (ManualParameter, Numbers)
SetSensitivity ==
    /\ \E s \in Sensitivities : amp' = [amp EXCEPT !.sensitivity = s]
    /\ amp_ret' = AmpOutcome("sensitivity", "", NoPair)
    /\ UNCHANGED << measured, latest >>
    /\ UNCHANGED otherThanAmp

\* The voltage at the amplifier's output changes.
VoltageChanges ==
    /\ \E volt \in Volts \ {measured} : measured' = volt
    /\ amp_ret' = AmpOutcome("voltage", "", NoPair)
    /\ UNCHANGED << amp, latest >>
    /\ UNCHANGED otherThanAmp

\* CurrentParameter.get: the value is saved and returned, unless building
\* it raised.
CurrentGet ==
    /\ LET r == current_get(amp, measured)
       IN  /\ amp_ret' = AmpOutcome("get", r.exc, r.value)
           /\ latest' = IF r.exc = "" THEN r.value ELSE latest
    /\ UNCHANGED << amp, measured >>
    /\ UNCHANGED otherThanAmp

AmpInit ==
    /\ AmpConstructed
    /\ AcqUnused
    /\ ScopeConstructed(0)
    /\ ServerConstructed(0)
    /\ DbConstructed(0)
    /\ AtsUnused

AmpNext ==
    \/ SetInvert
    \/ SetSensitivity
    \/ VoltageChanges
    \/ CurrentGet

SpecAmp == AmpInit /\ [][AmpNext]_vars

\* C16: CurrentParameter.get returns the pair (volt, current), volt being
\* the measured parameter's reading and current volt * sensitivity when the
\* SR570's invert is False and -(volt * sensitivity) when it is True; the
\* pair is saved as the parameter's latest value.
C16_CurrentFollowsInvert ==
    [][ CurrentGet =>
          LET current == IF amp.invert THEN 0 - (measured * amp.sensitivity)
                         ELSE measured * amp.sensitivity
          IN  /\ amp_ret'.exc = ""
              /\ amp_ret'.value = Pair(measured, current)
              /\ latest' = Pair(measured, current)
      ]_vars


\* ------------------------------------------- claims on pre_start_capture
\* The three conditions of HD_Samples_Controller.pre_start_capture.
CaptureReady ==
    /\ ctl.samples_per_record = alazar.samples_per_record
    /\ ctl.sample_rate = alazar.sample_rate
    /\ Len(get_demod_freqs(params)) >= 1

\* C17: HD_Samples_Controller.pre_start_capture allocates the accumulator
\* and builds the cos/sin matrices only if the controller's
\* samples_per_record equals the Alazar's, its sample_rate equals the
\* Alazar's and at least one demodulation frequency is set; otherwise it
\* raises before the buffer or the matrices are touched.
C17_CaptureOnlyWhenReady ==
    [][ (ctor.kind = "HD" /\ AcquirePreStartCapture) =>
          IF CaptureReady
          THEN /\ ctl'.allocated
               /\ ctl'.buffer = Zeros(ctl.samples_per_record
                                      * alazar.records_per_buffer
                                      * ctor.number_of_channels)
               /\ ctl'.demod_mat = [freqs |-> get_demod_freqs(params),
                                    samples |-> ctl.samples_per_record,
                                    sample_rate |-> ctl.sample_rate]
          ELSE /\ ret'.exc = "Exception"
               /\ ctl'.buffer = ctl.buffer
               /\ ctl'.allocated = ctl.allocated
               /\ ctl'.demod_mat = ctl.demod_mat
      ]_vars

\* pre_start_capture has raised on a controller whose samples_per_record
\* and sample_rate equal the Alazar's: only a demodulation frequency lacks.
C17_Witness ==
    /\ ctor.kind = "HD"
    /\ acq.calls = << "pre_start_capture" >> /\ acq.pc = "idle"
    /\ ret.exc = "Exception"
    /\ ctl.samples_per_record = alazar.samples_per_record
    /\ ctl.sample_rate = alazar.sample_rate
    /\ ~ctl.allocated


\* ------------------------------------------- claims on samples_per_record
\* int_time or int_delay has just been set, directly or by to_default.
TimeWasSet == ctor.kind = "HD" /\ ret.op \in TimeCalls /\ ret.exc = ""

\* (int_time + int_delay) * sample_rate as the update functions compute
\* it, an unset int_time counted as 0.
SamplesNeeded ==
    FTimes(FAdd(OrZero(params.int_time), params.int_delay), ctl.sample_rate)

\* n is the smallest multiple of SamplesDivisor that is >= the float x.
SmallestMultipleFrom(n, x) ==
    /\ n % SamplesDivisor = 0
    /\ Float(n) >= x
    /\ Float(n - SamplesDivisor) < x

\* C18: after any sequence of successful int_time / int_delay sets
\* (to_default included), the controller's samples_per_record equals
\* acquisition_kwargs['samples_per_record'] and is the smallest multiple of
\* the Alazar's samples_divisor that is >= (int_time + int_delay) *
\* sample_rate, an unset int_time counted as 0 and sample_rate being the
\* Alazar's rate read at the latest set.
C18_SamplesPerRecordRoundedUp ==
    TimeWasSet =>
       /\ ctl.sample_rate = alazar.sample_rate
       /\ ctl.samples_per_record
             = acquisition.acquisition_kwargs.samples_per_record
       /\ SmallestMultipleFrom(ctl.samples_per_record, SamplesNeeded)


\* ------------------------------------- claims on int_time and int_delay
InTimeRange(value) ==
    value # None /\ 0 <= value /\ value <= Float(IntTimeLimit)

\* C19: setting int_time or int_delay to None or to a value outside
\* 0 <= value <= 0.1 raises ValueError and changes nothing: the stored
\* parameter value, samples_per_record, sample_rate, the acquisition shapes
\* and acquisition_kwargs are all as they were before the call.
C19_RefusedTimeChangesNothing ==
    [][ \A value \in TimeInputs :
          (~InTimeRange(value) /\ (IntTimeSet(value) \/ IntDelaySet(value)))
             => /\ ret'.exc = "ValueError"
                /\ UNCHANGED << ctl, params, acquisition >>
      ]_vars

\* An int_delay set was refused on a controller that had computed its
\* samples_per_record at another Alazar sample rate than the present one.
C19_Witness ==
    /\ ctor.kind = "HD"
    /\ ret.op = "int_delay" /\ ret.exc = "ValueError"
    /\ ctl.samples_per_record # None
    /\ ctl.sample_rate # alazar.sample_rate


\* C20: int_time.to_default() raises ValueError and does not change
\* int_time whenever the controller's samples_per_record is 0 or None;
\* otherwise it sets int_time to samples_per_record / sample_rate -
\* int_delay, an unset int_delay counted as 0.
C20_IntTimeDefault ==
    [][ IntTimeToDefault =>
          IF ctl.samples_per_record \in {0, None}
          THEN /\ ret'.exc = "ValueError"
               /\ params'.int_time = params.int_time
          ELSE /\ ret'.exc = ""
               /\ params'.int_time =
                     FSub(FDiv(Float(ctl.samples_per_record),
                               alazar.sample_rate),
                          OrZero(params.int_delay))
      ]_vars


\* ------------------------------------------------ claims on post_acquire
\* The sum, over the buffers ds, of element k.
RECURSIVE SumAt(_, _)
SumAt(ds, k) == IF ds = << >> THEN 0 ELSE Head(ds)[k] + SumAt(Tail(ds), k)

\* The sum over the buffers ds and over records 0 .. r - 1 of the element
\* at offset + record * spr + j (j counted from 1).
RECURSIVE SumOverRecords(_, _, _, _, _)
SumOverRecords(ds, r, spr, offset, j) ==
    IF r = 0 THEN 0
    ELSE SumAt(ds, offset + (r - 1) * spr + j)
           + SumOverRecords(ds, r - 1, spr, offset, j)

\* C21: VNA_Acquisition_Controller.post_acquire computes, for each sample
\* index j < samples_per_record, channel A as the sum over the records r <
\* records_per_buffer of buffer[r * samples_per_record + j] divided by
\* buffers_per_acquisition * records_per_buffer, and channel B the same at
\* offset len(buffer) // 2: the mean over all records of all buffers
\* delivered in the acquisition, channel A reading first-half elements
\* only and channel B second-half elements only.
C21_VNAMeanOverRecords ==
    (ctor.kind = "VNA" /\ acq.pc = "return") =>
       LET spr == ctl.samples_per_record
           rpb == ctl.records_per_buffer
           half == Len(ctl.buffer) \div 2
           v == acq.post_value
       IN  /\ v.den = Len(delivered) * rpb
           /\ Len(delivered) = ctl.buffers_per_acquisition
           /\ rpb * spr = half
           /\ Len(v.A) = spr /\ Len(v.B) = spr
           /\ \A j \in 1..spr :
                 /\ v.A[j] = SumOverRecords(delivered, rpb, spr, 0, j)
                 /\ v.B[j] = SumOverRecords(delivered, rpb, spr, half, j)

\* post_acquire has averaged two buffers of two records of two samples.
C21_Witness ==
    /\ ctor.kind = "VNA" /\ acq.pc = "return"
    /\ Len(delivered) = 2 /\ delivered[1] # delivered[2]
    /\ ctl.records_per_buffer = 2 /\ ctl.samples_per_record = 2
    /\ acq.post_value.den = 4


\* Every buffer delivered in the acquisition carries the same data.
SameDataDelivered ==
    /\ delivered # << >>
    /\ \A i \in 1..Len(delivered) : delivered[i] = delivered[1]

\* C22: in both Reflectometry_Acquisition_Controllers the result of
\* post_acquire is averaged over the buffers of the acquisition: when every
\* one of the k = buffers_per_acquisition buffers delivered to handle_buffer
\* carries the same data, post_acquire returns the same records for every
\* k >= 1 as it does for k = 1.
C22_RFAveragedOverBuffers ==
    (IsRF /\ acq.pc = "return" /\ SameDataDelivered) =>
       acq.post_value =
          post_acquire([ctl EXCEPT !.buffer = delivered[1],
                                   !.buffers_per_acquisition = 1],
                       filter_settings).value


\* ====================================================== AlazarTech_ATS9462
MaxAtsSets == 2       \* parameter values set after construction

\* Python values of two types, and == between them: a str never equals an
\* int.
PyStr(s) == [type |-> "str", v |-> s]
PyInt(n) == [type |-> "int", v |-> n]
PyEq(a, b) == a.type = b.type /\ a.v = b.v

\* add_parameter(name, parameter_class=AlazarParameter, value=...,
\* byte_to_value_dict=...) and add_parameter(name, ..., value=..., vals=...)
WithDict(name, value, dict) ==
    [name |-> name, value |-> value, has_dict |-> TRUE, dict |-> dict]
Plain(name, value) ==
    [name |-> name, value |-> value, has_dict |-> FALSE, dict |-> << >>]

Switch(off, on) == (off :> "DISABLED" @@ on :> "ENABLED")

\* The parameters of the board's configuration before the channels; the
\* value 500e3 of sample_rate equals the 500000 of its dict.
ClockParameters ==
    << WithDict("clock_source", "INTERNAL_CLOCK",
                (1 :> "INTERNAL_CLOCK" @@ 4 :> "SLOW_EXTERNAL_CLOCK"
                 @@ 2 :> "FAST_EXTERNAL_CLOCK"
                 @@ 7 :> "EXTERNAL_CLOCK_10_MHz_REF")),
       WithDict("sample_rate", 500000,
                (1 :> 1000 @@ 2 :> 2000 @@ 4 :> 5000 @@ 8 :> 10000
                 @@ 10 :> 20000 @@ 12 :> 50000 @@ 14 :> 100000
                 @@ 16 :> 200000 @@ 18 :> 500000 @@ 20 :> 1000000
                 @@ 24 :> 2000000 @@ 26 :> 5000000 @@ 28 :> 10000000
                 @@ 30 :> 20000000 @@ 34 :> 50000000 @@ 36 :> 100000000
                 @@ 37 :> 125000000 @@ 38 :> 160000000 @@ 39 :> 180000000)),
       WithDict("clock_edge", "CLOCK_EDGE_RISING",
                (0 :> "CLOCK_EDGE_RISING" @@ 1 :> "CLOCK_EDGE_FALLING")),
       Plain("decimation", 1) >>

\* for i in ['1', '2']: the parameters of channel i; channel_range in
\* tenths of a volt.
ChannelParameters(i) ==
    << WithDict("coupling" \o i.v, "DC", (1 :> "AC" @@ 2 :> "DC")),
       WithDict("channel_range" \o i.v, 20,
                (6 :> 2 @@ 7 :> 4 @@ 9 :> 8 @@ 11 :> 20 @@ 12 :> 40
                 @@ 14 :> 80 @@ 18 :> 160)),
       WithDict("impedance" \o i.v, 50, (1 :> 1000000 @@ 2 :> 50)),
       WithDict("bwlimit" \o i.v, "DISABLED", Switch(0, 1)) >>

\* for i in ['1', '2']: the parameters of trigger engine i; the default of
\* trigger_engine<i> is 'TRIG_ENGINE_' + ('J' if i == 0 else 'K').
TriggerParameters(i) ==
    << WithDict("trigger_engine" \o i.v,
                "TRIG_ENGINE_" \o (IF PyEq(i, PyInt(0)) THEN "J" ELSE "K"),
                (0 :> "TRIG_ENGINE_J" @@ 1 :> "TRIG_ENGINE_K")),
       WithDict("trigger_source" \o i.v, "EXTERNAL",
                (0 :> "CHANNEL_A" @@ 1 :> "CHANNEL_B" @@ 2 :> "EXTERNAL"
                 @@ 3 :> "DISABLE")),
       WithDict("trigger_slope" \o i.v, "TRIG_SLOPE_POSITIVE",
                (1 :> "TRIG_SLOPE_POSITIVE" @@ 2 :> "TRIG_SLOPE_NEGATIVE")),
       Plain("trigger_level" \o i.v, 140) >>

TriggerOperation ==
    WithDict("trigger_operation", "TRIG_ENGINE_OP_J",
             (0 :> "TRIG_ENGINE_OP_J" @@ 1 :> "TRIG_ENGINE_OP_K"
              @@ 2 :> "TRIG_ENGINE_OP_J_OR_K" @@ 3 :> "TRIG_ENGINE_OP_J_AND_K"
              @@ 4 :> "TRIG_ENGINE_OP_J_XOR_K"
              @@ 5 :> "TRIG_ENGINE_OP_J_AND_NOT_K"
              @@ 6 :> "TRIG_ENGINE_OP_NOT_J_AND_K"))

\* external_trigger_coupling ... aux_io_param
ExternalParameters ==
    << WithDict("external_trigger_coupling", "DC", (1 :> "AC" @@ 2 :> "DC")),
       WithDict("external_trigger_range", "ETR_5V",
                (0 :> "ETR_5V" @@ 1 :> "ETR_1V")),
       Plain("trigger_delay", 0),
       Plain("timeout_ticks", 0),
       WithDict("aux_io_mode", "AUX_OUT_TRIGGER",
                (0 :> "AUX_OUT_TRIGGER" @@ 1 :> "AUX_IN_TRIGGER_ENABLE"
                 @@ 13 :> "AUX_IN_AUXILIARY")),
       WithDict("aux_io_param", "NONE",
                (0 :> "NONE" @@ 1 :> "TRIG_SLOPE_POSITIVE"
                 @@ 2 :> "TRIG_SLOPE_NEGATIVE")) >>

\* The parameters for the acquire function
AcquireParameters ==
    << WithDict("mode", "NPT", (512 :> "NPT" @@ 1024 :> "TS")),
       Plain("samples_per_record", 1024),
       Plain("records_per_buffer", 10),
       Plain("buffers_per_acquisition", 10),
       WithDict("channel_selection", "AB", (1 :> "A" @@ 2 :> "B" @@ 3 :> "AB")),
       Plain("transfer_offset", 0),
       WithDict("external_startcapture", "ENABLED", Switch(0, 1)),
       WithDict("enable_record_headers", "DISABLED", Switch(0, 8)),
       WithDict("alloc_buffers", "DISABLED", Switch(0, 32)),
       WithDict("fifo_only_streaming", "DISABLED", Switch(0, 2048)),
       WithDict("interleave_samples", "DISABLED", Switch(0, 4096)),
       WithDict("get_processed_data", "DISABLED", Switch(0, 8192)),
       Plain("allocated_buffers", 4),
       Plain("buffer_timeout", 1000) >>

\* The add_parameter calls of AlazarTech_ATS9462.__init__, in order.
AddParameterCalls ==
    ClockParameters
      \o ChannelParameters(PyStr("1")) \o ChannelParameters(PyStr("2"))
      \o << TriggerOperation >>
      \o TriggerParameters(PyStr("1")) \o TriggerParameters(PyStr("2"))
      \o ExternalParameters
      \o AcquireParameters

\* __init__: the next add_parameter call
AtsAddParameter ==
    /\ ats_pc = "init"
    /\ Len(ats_params) < Len(AddParameterCalls)
    /\ ats_params' = Append(ats_params, AddParameterCalls[Len(ats_params) + 1])
    /\ UNCHANGED << ats_model, ats_pc, ats_sets >>
    /\ UNCHANGED otherThanAts

\* __init__: the board must report the model 'ATS9462'
AtsCheckModel ==
    /\ ats_pc = "init"
    /\ Len(ats_params) = Len(AddParameterCalls)
    /\ ats_pc' = IF ats_model # "ATS9462" THEN "failed" ELSE "constructed"
    /\ UNCHANGED << ats_model, ats_params, ats_sets >>
    /\ UNCHANGED otherThanAts

\* A parameter with a byte_to_value_dict is given one of the dict's values
\* (as alazar.config(...) does for the keywords of setup_acquisition).
AtsSet ==
    /\ ats_pc = "constructed"
    /\ ats_sets < MaxAtsSets
    /\ \E k \in 1..Len(ats_params) :
          /\ ats_params[k].has_dict
          /\ \E byte \in DOMAIN ats_params[k].dict :
                ats_params' = [ats_params EXCEPT
                                  ![k].value = ats_params[k].dict[byte]]
    /\ ats_sets' = ats_sets + 1
    /\ UNCHANGED << ats_model, ats_pc >>
    /\ UNCHANGED otherThanAts

AtsInit ==
    /\ ats_model \in {"ATS9462", "ATS9360"}
    /\ ats_params = << >>
    /\ ats_pc = "init"
    /\ ats_sets = 0
    /\ AcqUnused
    /\ ScopeConstructed(0)
    /\ ServerConstructed(0)
    /\ AmpConstructed /\ DbConstructed(0)

AtsNext ==
    \/ AtsAddParameter
    \/ AtsCheckModel
    \/ AtsSet

SpecAts == AtsInit /\ [][AtsNext]_vars

\* The byte codes whose image is the parameter's value.
CodesOf(p) == { byte \in DOMAIN p.dict : p.dict[byte] = p.value }

\* The parameter of the given name has the given value.
HasValue(name, value) ==
    \E k \in 1..Len(ats_params) :
        ats_params[k].name = name /\ ats_params[k].value = value

\* C23: in a freshly constructed AlazarTech_ATS9462 every parameter that has
\* a byte_to_value_dict has a default value that is one of that dict's
\* values and is the image of exactly one byte code, and the two trigger
\* engines get distinct defaults: trigger_engine1 defaults to
\* 'TRIG_ENGINE_J' and trigger_engine2 to 'TRIG_ENGINE_K'.
C23_DefaultsInDicts ==
    (ats_pc = "constructed" /\ ats_sets = 0) =>
       /\ \A k \in 1..Len(ats_params) :
             ats_params[k].has_dict => Cardinality(CodesOf(ats_params[k])) = 1
       /\ HasValue("trigger_engine1", "TRIG_ENGINE_J")
       /\ HasValue("trigger_engine2", "TRIG_ENGINE_K")

====
